---------------------------- MODULE Spec2Model ----------------------------
(***************************************************************************)
(* Request/response correlation and fan-out bridge of the Rhasspy web      *)
(* server (rhasspyserver_hermes/__main__.py).                              *)
(*                                                                         *)
(* Modelled: the session registry (session_names, api_start_recording,     *)
(* api_stop_recording), the publish-and-wait callers                       *)
(* (api_listen_for_command, api_stop_recording), the other requests that   *)
(* toggle intent handling or the wake word (api_text_to_intent,            *)
(* api_speech_to_intent, api_listen_for_wake), the consumer queues of the  *)
(* WebSocket sessions (mqtt_websocket and the five routes it wraps,        *)
(* logging_websocket) and of the one-shot HTTP waiter (api_mqtt GET), the  *)
(* POST branch of api_mqtt, and api_restart.                               *)
(*                                                                         *)
(* A handler runs without interruption between two of its suspension       *)
(* points: each action is one such stretch.                                *)
(*                                                                         *)
(* RhasspyCore (publish_wait, message_queues, the MQTT client and its      *)
(* on_message dispatch) is not part of __main__.py; the definitions that   *)
(* stand for it follow the specification's sections 4.2, 4.3 and 6.        *)
(***************************************************************************)
EXTENDS Integers, Sequences, FiniteSets, TLC

\* ------------------------------------------------------------------ bounds

\* uuid4() calls (fresh correlation ids) in one run
MaxIds == 2
\* Hermes replies the bus delivers to publish_wait callers in one run
MaxReplies == 2

\* MQTT messages the bus delivers to the consumer queues in one run
MaxDeliver == 2
\* transport frames (and transport errors) the WebSocket clients send in one run
MaxFrames == 2
\* api_restart requests in one run
MaxRestarts == 1
\* broadcast_logging / broadcast_mqtt calls in one run
MaxBroadcasts == 2
\* levels of the topics and patterns given to the matcher on its own
MaxLevels == 4
\* POST /api/listen-for-wake requests in one run
MaxWakes == 1
\* POST /api/mqtt/<topic> requests in one run
MaxPosts == 1

\* the maxsize of asyncio.Queue(): 0, a queue without a limit
QueueMaxSize == 0

\* ------------------------------------------------------------------ values

\* Python's None, for a result, for an id and for a message
None == "None"
NoId == 0
NoMsg == [type |-> "None", sessionId |-> 0, n |-> 0]

\* the `name` query arguments of start-recording / stop-recording
Names == {"cmd1", "cmd2"}

Ids == 1 .. MaxIds
\* the api_stop_recording and the api_listen_for_command requests of one run;
\* the requests of a set may overlap in time
StopCalls == {1, 2}
ListenCalls == {1, 2}

\* a publish_wait caller: <<"stop", s>> or <<"listen", l>>
Callers == ({"stop"} \X StopCalls) \cup ({"listen"} \X ListenCalls)

\* the api_text_to_intent and the api_speech_to_intent requests of one run:
\* <<"text", t>> or <<"speech", p>>
TextCalls == {1}
SpeechCalls == {1}
Pipelines == ({"text"} \X TextCalls) \cup ({"speech"} \X SpeechCalls)

AsrTypes == {"AsrTextCaptured", "AsrError"}
NluTypes == {"NluIntent", "NluIntentNotRecognized", "NluError"}
\* the Hermes message classes whose topics a publish_wait caller subscribes to
ReplyTypes == AsrTypes \cup NluTypes

\* the WebSocket connections and the GET /api/mqtt/<topic> requests of one
\* run; each owns the asyncio.Queue its handler creates
WsSessions == {"w1", "w2"}
GetCalls == {"g1"}
\* the connections to /api/events/log of one run, each with its own queue
LogSessions == {"l1", "l2"}
Owners == WsSessions \cup GetCalls \cup LogSessions

\* topics and subscription patterns, as their "/"-separated segments
Topics == {<<"x", "1">>, <<"y", "1">>, <<"events", "x">>, <<"reply", "42">>,
           <<"cmd", "go">>}
Patterns == {<<"x", "#">>, <<"y", "#">>, <<"events", "#">>, <<"events", "+">>,
             <<"reply", "#">>, <<"cmd", "#">>}

\* MQTT payloads: the JSON text "ok" (with its quotes) and the bare text ok,
\* which json.loads rejects
Payloads == {"\"ok\"", "ok"}

\* the kinds of the queue items other than "mqtt", one per route that sends
\* them: /api/events/intent, /api/events/wake, /api/events/text
EventKinds == {"intent", "wake", "text"}

VARIABLES
  session_names,   \* dict name -> sessionId (a function on the names present)
  uuid_next,       \* the next fresh value uuid4() returns
  published,       \* the messages handed to core.publish, in order
  start_returned,  \* per name, the value the last api_start_recording returned
  stop,            \* per api_stop_recording request: its position and locals
  listen,          \* per api_listen_for_command request: its position and locals
  handler_topics,  \* per publish_wait caller: the topics of its private queue
  handler_queue,   \* per publish_wait caller: the buffer of its private queue
  consumed,        \* per publish_wait caller: the messages its predicate saw
  replies,         \* the Hermes replies the bus has delivered so far
  mqtt_websockets, \* the module's set of WebSocket queues
  message_queues,  \* core.message_queues of the current core object
  subscribed,      \* the patterns given to core.client.subscribe of the current core
  core_up,         \* FALSE from core.shutdown() until core.start() of the new core returns
  core,            \* the global `core`: the number of the RhasspyCore object it is bound to
  queue,           \* per owner: the buffer of its asyncio.Queue
  ws,              \* per WebSocket connection: its position, locals and tasks
  sent,            \* per WebSocket connection: the frames sent to its client
  get,             \* per GET /api/mqtt request: its position and locals
  delivered,       \* the MQTT messages the bus has delivered so far
  client_published,\* the (topic, payload) pairs given to core.client.publish
  frames,          \* number of transport frames the clients have sent
  restarts,        \* number of api_restart requests so far
  logging_websockets, \* the module's set of logging queues
  log_ws,          \* per /api/events/log connection: its position and what it sent
  bcast,           \* the broadcast coroutine that is suspended in a put, if any
  bcasts,          \* the broadcasts that have returned or raised, in order
  broadcasts,      \* number of broadcast calls so far
  match,           \* the last iter_match call made on its own: its arguments and result
  pipeline         \* per api_text_to_intent / api_speech_to_intent request: its position and locals

hubVars == <<mqtt_websockets, message_queues, subscribed, core_up, core, queue, ws,
             sent, get, delivered, client_published, frames, restarts>>

bcastVars == <<logging_websockets, log_ws, bcast, bcasts, broadcasts>>

recVars == <<session_names, uuid_next, published, start_returned, stop, listen,
             handler_topics, handler_queue, consumed, replies>>

vars == <<session_names, uuid_next, published, start_returned, stop, listen,
          handler_topics, handler_queue, consumed, replies,
          mqtt_websockets, message_queues, subscribed, core_up, core, queue, ws,
          sent, get, delivered, client_published, frames, restarts,
          logging_websockets, log_ws, bcast, bcasts, broadcasts, match, pipeline>>

\* ------------------------------------------------------------ bus messages

\* an outbound Hermes message; `by` is the request that published it
Msg(type, sessionId, by) == [type |-> type, sessionId |-> sessionId, by |-> by]

\* an inbound Hermes reply; sessionId stands for message.sessionId of the
\* Asr classes and for message.id of the Nlu classes; n is its arrival index
Reply(type, sessionId, n) == [type |-> type, sessionId |-> sessionId, n |-> n]

\* ------------------------------------------------------- session registry

\* session_names[name] = sessionId
DictSetFirstWins(d, k, v) ==
  IF k \in DOMAIN d THEN d ELSE [x \in DOMAIN d \cup {k} |-> IF x = k THEN v ELSE d[x]]

DictSet(d, k, v) == [x \in DOMAIN d \cup {k} |-> IF x = k THEN v ELSE d[x]]

\* session_names.pop(name): the dict without the key
DictPopKeeps(d, k) == d

DictPopAll(d, k) == << >>

DictPop(d, k) == [x \in DOMAIN d \ {k} |-> d[x]]

\* ---------------------------------------------------------- publish_wait

\* the generator handle_captured of api_listen_for_command, applied to one
\* message: the message when it ends the wait, None when the loop goes on
ListenHandleCapturedAnyId(message, sessionId) ==
  IF message.type \in {"AsrTextCaptured", "AsrError"} THEN message ELSE NoMsg

ListenHandleCaptured(message, sessionId) ==
  IF message.type \in {"AsrTextCaptured", "AsrError"} /\ message.sessionId = sessionId
  THEN message ELSE NoMsg

\* the generator handle_intent of api_listen_for_command
ListenHandleIntent(message, sessionId) ==
  IF message.type \in {"NluIntent", "NluIntentNotRecognized", "NluError"}
     /\ message.sessionId = sessionId
  THEN message ELSE NoMsg

\* the generator handle_captured of api_stop_recording
StopHandleCapturedAnyId(message, sessionId) ==
  IF message.type = "AsrTextCaptured" THEN message ELSE NoMsg

StopHandleCaptured(message, sessionId) ==
  IF message.type = "AsrTextCaptured" /\ message.sessionId = sessionId
  THEN message ELSE NoMsg

\* the outbound messages of the second publish_wait of api_listen_for_command
ListenIntentMessagesSwapped(sessionId, by) ==
  <<Msg("NluQuery", sessionId, by), Msg("AsrStopListening", sessionId, by)>>

ListenIntentMessages(sessionId, by) ==
  <<Msg("AsrStopListening", sessionId, by), Msg("NluQuery", sessionId, by)>>

\* core.publish_wait up to its first suspension: register the private queue
\* for `topics`, then publish `messages` in the order given
PublishInOrderReversed(log, messages) ==
  log \o [i \in 1 .. Len(messages) |-> messages[Len(messages) + 1 - i]]

PublishInOrder(log, messages) == log \o messages

Register(c, topics) ==
  /\ handler_topics' = [handler_topics EXCEPT ![c] = topics]
  /\ handler_queue' = [handler_queue EXCEPT ![c] = <<>>]

\* the end of core.publish_wait: the private queue is deregistered and
\* what it still buffers is discarded
Deregister(c) ==
  /\ handler_topics' = [handler_topics EXCEPT ![c] = {}]
  /\ handler_queue' = [handler_queue EXCEPT ![c] = <<>>]

ToggleOnAlways(no_hass, by) == <<Msg("HandleToggleOn", NoId, by)>>

\* the request's finally block: HandleToggleOn when nohass was given
ToggleOn(no_hass, by) ==
  IF no_hass THEN <<Msg("HandleToggleOn", NoId, by)>> ELSE <<>>

ToggleOff(no_hass, by) ==
  IF no_hass THEN <<Msg("HandleToggleOff", NoId, by)>> ELSE <<>>

\* ----------------------------------------------------- locals of a request

StopIdle ==
  [pc |-> "idle", name |-> None, no_hass |-> FALSE, sessionId |-> NoId,
   text_captured |-> NoMsg, result |-> None]

ListenIdle ==
  [pc |-> "idle", no_hass |-> FALSE, sessionId |-> NoId,
   text_captured |-> NoMsg, nlu_intent |-> NoMsg, result |-> None]

PipelineIdle == [pc |-> "idle", no_hass |-> FALSE, result |-> None]

\* a transport frame of a WebSocket client. kind is the "type" of a well
\* formed frame ("subscribe", "publish"), or says what is wrong with it
Frame(kind, topic) == [kind |-> kind, topic |-> topic]
\* text that is not JSON; JSON without "type"; a type that is neither
\* subscribe nor publish; JSON without "topic"; a publish without "payload"
BadKinds == {"not_json", "no_type", "bad_type", "no_topic", "publish_no_payload"}
NoFrame == Frame("none", <<>>)

\* a task of api_ws_mqtt: pending, done with a result, or done with an error;
\* id n is that of the n-th task the session created for this variable
Task(id, state, result) == [id |-> id, state |-> state, result |-> result]
NoTask == Task(0, "none", NoFrame)

\* an item of a consumer queue: ("mqtt", topic, payload); n is its arrival index
Item(kind, topic, payload, n) ==
  [kind |-> kind, topic |-> topic, payload |-> payload, n |-> n]
NoItem == Item("none", <<>>, "", 0)

\* pc: "wait" at asyncio.wait (or at queue.get() of the other routes), "send"
\* while suspended in websocket.send, "closed" after the wrapper's finally;
\* pending: the tasks in the local set `pending`, each as <<variable, id>>;
\* done: the tasks of the local set `done` the for loop has yet to reach;
\* out: the frames the send code has yet to see leave, the first of them
\* being the one websocket.send is suspended on;
\* dropped: the number of frames whose handling raised;
\* handled: the arrival indices of the queue items the session has taken
\* through its send code; failed: those for which that code raised;
\* sub_at: per pattern of the matcher, how many bus messages had arrived
\* when the pattern was added
WsIdle ==
  [pc |-> "idle", route |-> None, topic_matcher |-> {},
   receive_task |-> NoTask, send_task |-> Task(0, "none", NoItem),
   pending |-> {}, done |-> <<>>, out |-> <<>>,
   message_bound |-> FALSE, handled |-> {}, failed |-> {}, sub_at |-> << >>,
   dropped |-> 0,
   exit |-> None, teardown |-> None]

\* since: how many bus messages had arrived when the queue was registered
GetIdle ==
  [pc |-> "idle", topic_matcher |-> {}, result |-> None,
   response |-> NoItem, teardown |-> None, since |-> 0]

\* the locals of one /api/events/log connection; message is the arrival
\* index of the log message websocket.send is suspended on, if any
LogIdle == [pc |-> "idle", sent |-> <<>>, message |-> 0, exit |-> None]

\* a broadcast coroutine: the set it iterates ("logging" or "mqtt"), the item
\* it puts, the queues it has put it into, the size of the set when the
\* iteration began, and the queue whose put it is suspended in
Broadcast(pc, kind, item, at_start, put, blocked) ==
  [pc |-> pc, kind |-> kind, item |-> item, at_start |-> at_start,
   put |-> put, blocked |-> blocked]
NoBroadcast == Broadcast("idle", None, NoItem, {}, {}, None)

\* a call of iter_match: the pattern stored, the topic asked, whether it matched
NoMatch == [pattern |-> <<>>, topic |-> <<>>, result |-> FALSE, called |-> FALSE]

\* ------------------------------------------------------------ MQTTMatcher

\* matches(pattern, topic), both already split on "/": the segments are
\* walked pairwise; a last "#" consumes all remaining topic segments,
\* including none; "+" consumes one topic segment; a literal segment must
\* equal the topic segment; a pattern and a topic that do not end together
\* do not match
RECURSIVE MatchFrom(_, _)
MatchFrom(pattern, topic) ==
  IF pattern = <<>> THEN topic = <<>>
  ELSE IF pattern = <<"#">> THEN TRUE
  ELSE IF topic = <<>> THEN FALSE
  ELSE \/ pattern[1] = topic[1] /\ MatchFrom(Tail(pattern), Tail(topic))
       \/ pattern[1] = "+" /\ MatchFrom(Tail(pattern), Tail(topic))

RECURSIVE MatchFromHashNeedsOne(_, _)
MatchFromHashNeedsOne(pattern, topic) ==
  IF pattern = <<>> THEN topic = <<>>
  ELSE IF topic = <<>> THEN FALSE
  ELSE IF pattern = <<"#">> THEN TRUE
  ELSE \/ pattern[1] = topic[1] /\ MatchFromHashNeedsOne(Tail(pattern), Tail(topic))
       \/ pattern[1] = "+" /\ MatchFromHashNeedsOne(Tail(pattern), Tail(topic))

MatchesHashNeedsOne(pattern, topic) == MatchFromHashNeedsOne(pattern, topic)

Matches(pattern, topic) == MatchFrom(pattern, topic)

\* topic_matcher.iter_match(topic): one value per stored pattern that matches
IterMatch(topic_matcher, topic) == {p \in topic_matcher : Matches(p, topic)}

\* the level names of the topics given to the matcher on its own
Levels == {"a", "b", "c"}

\* the topics: one to MaxLevels levels
MatchTopics == UNION {[1 .. k -> Levels] : k \in 1 .. MaxLevels}

\* the patterns: levels or "+", with or without a last "#"
MatchPatterns ==
  LET body(n) == UNION {[1 .. k -> Levels \cup {"+"}] : k \in 0 .. n}
  IN (body(MaxLevels) \ {<<>>}) \cup {Append(p, "#") : p \in body(MaxLevels - 1)}

\* ------------------------------------------------------------------- JSON

\* json.loads(payload): the decoded value, or the error it raises
JsonLoads(payload) ==
  IF payload = "\"ok\"" THEN [ok |-> TRUE, value |-> "ok"]
  ELSE [ok |-> FALSE, value |-> "JSONDecodeError"]

\* the JSON text of a decoded value, as jsonify / json.dumps writes it
JsonDumps(value) == IF value = "ok" THEN "\"ok\"" ELSE value

\* an outbound WebSocket frame / HTTP response: {"topic": ..., "payload": ...}
\* with the decoded payload; n is the arrival index of the bus message
Out(topic, value, n) == [topic |-> topic, payload |-> value, n |-> n]

\* --------------------------------------------------- WebSocket consumers

\* for _ in topic_matcher.iter_match(topic): send ...; break
SendCopies(matching) == IF matching = {} THEN 0 ELSE 1

\* the passing of the consumer's filter: message[0] == "mqtt" and some
\* pattern of the consumer's own matcher matches the topic
Passes(item, topic_matcher) ==
  item.kind = "mqtt" /\ IterMatch(topic_matcher, item.topic) # {}

SendItemUnfiltered(item, topic_matcher) ==
  IF item.kind # "mqtt" THEN [out |-> <<>>, raised |-> FALSE]
  ELSE LET j == JsonLoads(item.payload)
       IN IF ~j.ok THEN [out |-> <<>>, raised |-> TRUE]
          ELSE [out |-> <<Out(item.topic, j.value, item.n)>>, raised |-> FALSE]

\* the body of the send branch of api_ws_mqtt (and of the loop of
\* api_ws_mqtt_topic) for one queue item, up to websocket.send: the frames it
\* goes on to send, and whether an exception was raised before that (and
\* swallowed by the except clause)
SendItem(item, topic_matcher) ==
  IF item.kind # "mqtt" THEN [out |-> <<>>, raised |-> FALSE]
  ELSE LET j == JsonLoads(item.payload)
           copies == SendCopies(IterMatch(topic_matcher, item.topic))
       IN IF ~j.ok THEN [out |-> <<>>, raised |-> TRUE]
          ELSE [out |-> [i \in 1 .. copies |-> Out(item.topic, j.value, item.n)],
                raised |-> FALSE]

\* the body of the loops of api_ws_intent, api_ws_wake and api_ws_text for
\* one queue item, up to websocket.send: the route sends the items of its
\* own kind
SendEvent(item, route) ==
  IF item.kind = route
  THEN [out |-> <<Out(item.topic, item.payload, item.n)>>, raised |-> FALSE]
  ELSE [out |-> <<>>, raised |-> FALSE]

\* the value of "payload" in the publish frames of the clients
FramePayload == "ok"

\* the arguments of a core.client.publish call
ClientPublish(topic, payload) == [topic |-> topic, payload |-> payload]

HandleWsMqttNoAssert(frame, topic_matcher) ==
  IF frame.kind \in {"subscribe", "bad_type"}
  THEN [raised |-> FALSE, topic_matcher |-> topic_matcher \cup {frame.topic},
        subscribe |-> {frame.topic}, publish |-> <<>>]
  ELSE IF frame.kind = "publish"
  THEN [raised |-> FALSE, topic_matcher |-> topic_matcher,
        subscribe |-> {}, publish |-> <<ClientPublish(frame.topic, JsonDumps(FramePayload))>>]
  ELSE [raised |-> TRUE, topic_matcher |-> topic_matcher,
        subscribe |-> {}, publish |-> <<>>]

HandleWsMqttPublishSubscribes(frame, topic_matcher) ==
  IF frame.kind \in {"subscribe", "publish"}
  THEN [raised |-> FALSE, topic_matcher |-> topic_matcher \cup {frame.topic},
        subscribe |-> IF frame.kind = "subscribe" THEN {frame.topic} ELSE {},
        publish |-> IF frame.kind = "publish"
                    THEN <<ClientPublish(frame.topic, JsonDumps(FramePayload))>>
                    ELSE <<>>]
  ELSE [raised |-> TRUE, topic_matcher |-> topic_matcher,
        subscribe |-> {}, publish |-> <<>>]

\* handle_ws_mqtt(message, matcher): whether it raised, the matcher after
\* it, and what it gave to core.client.subscribe / core.client.publish
HandleWsMqtt(frame, topic_matcher) ==
  IF frame.kind = "subscribe"
  THEN [raised |-> FALSE, topic_matcher |-> topic_matcher \cup {frame.topic},
        subscribe |-> {frame.topic}, publish |-> <<>>]
  ELSE IF frame.kind = "publish"
  THEN [raised |-> FALSE, topic_matcher |-> topic_matcher,
        subscribe |-> {}, publish |-> <<ClientPublish(frame.topic, JsonDumps(FramePayload))>>]
  ELSE \* json.loads, a missing key or the assert on the type raises, each
       \* before anything was given to the client or stored in the matcher
       [raised |-> TRUE, topic_matcher |-> topic_matcher,
        subscribe |-> {}, publish |-> <<>>]

\* receive_task = loop.create_task(websocket.receive());
\* pending.add(receive_task)
RearmReceive(x) ==
  [x EXCEPT !.receive_task = Task(x.receive_task.id + 1, "pending", NoFrame),
            !.pending = @ \cup {<<"receive", x.receive_task.id + 1>>}]

\* send_task = loop.create_task(queue.get()); pending.add(send_task)
RearmSend(x) ==
  [x EXCEPT !.send_task = Task(x.send_task.id + 1, "pending", NoItem),
            !.pending = @ \cup {<<"send", x.send_task.id + 1>>}]

\* the receive branch of api_ws_mqtt on session record x: the record after
\* it, what reached the bus client, and whether the branch left the loop
\* (the except clause logs `message`, which is unbound when no task result
\* was ever read; nothing was re-armed by then)
ReceiveBranch(x) ==
  IF x.receive_task.state = "error"
  THEN IF x.message_bound
       THEN [ws |-> [RearmReceive(x) EXCEPT !.dropped = @ + 1],
             subscribe |-> {}, publish |-> <<>>, crash |-> FALSE]
       ELSE [ws |-> x, subscribe |-> {}, publish |-> <<>>, crash |-> TRUE]
  ELSE LET h == HandleWsMqtt(x.receive_task.result, x.topic_matcher)
       IN [ws |-> [RearmReceive(x) EXCEPT
                            !.message_bound = TRUE,
                            !.dropped = IF h.raised THEN @ + 1 ELSE @,
                            !.topic_matcher = h.topic_matcher,
                            !.sub_at = [p \in h.topic_matcher |->
                                          IF p \in DOMAIN x.sub_at THEN x.sub_at[p]
                                          ELSE Len(delivered)]],
           subscribe |-> h.subscribe, publish |-> h.publish, crash |-> FALSE]

\* the end of the send branch for the queue item with arrival index n: the
\* except clause has swallowed what was raised, and the task is re-armed
SendEnd(x, n, raised) ==
  [RearmSend(x) EXCEPT !.pc = "wait", !.out = <<>>,
                       !.handled = @ \cup {n},
                       !.failed = IF raised THEN @ \cup {n} ELSE @]

\* the send branch of api_ws_mqtt on session record x, up to its end or, when
\* there is a frame to send, up to the suspension in websocket.send
SendBranch(x) ==
  LET item == x.send_task.result
      r == SendItem(item, x.topic_matcher)
      y == [x EXCEPT !.message_bound = TRUE]
  IN IF r.out # <<>>
     THEN [y EXCEPT !.pc = "send", !.out = r.out]
     ELSE SendEnd(y, item.n, r.raised)

\* the set `done` asyncio.wait(pending, FIRST_COMPLETED) returns: the tasks
\* of `pending` that have completed
Done(x) ==
  {t \in x.pending :
     \/ t = <<"receive", x.receive_task.id>> /\ x.receive_task.state \in {"done", "error"}
     \/ t = <<"send", x.send_task.id>> /\ x.send_task.state = "done"}

AfterWaitKeepsDone(x) == x

\* done, pending = await asyncio.wait(...): `pending` becomes the tasks
\* that have not completed
AfterWait(x) == [x EXCEPT !.pending = @ \ Done(x)]

HandledFirstOnly(done, first) == <<first>>

\* for task in done: the tasks the loop body runs for, in the order of the
\* iteration, `first` being the one it meets first
Handled(done, first) ==
  <<first>> \o (IF done \ {first} = {} THEN <<>>
                ELSE <<CHOOSE t \in done \ {first} : TRUE>>)

\* the loop body for the tasks of `order`, one after the other, from session
\* record x: until they are all handled (the loop is back at asyncio.wait),
\* until the send branch suspends in websocket.send (the tasks not reached
\* stay in `done`), or until an exception leaves the loop
RECURSIVE ForTasks(_, _)
ForTasks(x, order) ==
  IF order = <<>>
  THEN [ws |-> [x EXCEPT !.pc = "wait", !.done = <<>>],
        subscribe |-> {}, publish |-> <<>>, crash |-> FALSE]
  ELSE IF Head(order)[1] = "receive"
  THEN LET R == ReceiveBranch(x)
           N == ForTasks(R.ws, Tail(order))
       IN IF R.crash THEN R
          ELSE [ws |-> N.ws, subscribe |-> R.subscribe \cup N.subscribe,
                publish |-> R.publish \o N.publish, crash |-> N.crash]
  ELSE LET S == SendBranch(x)
       IN IF S.pc = "send"
          THEN [ws |-> [S EXCEPT !.done = Tail(order)],
                subscribe |-> {}, publish |-> <<>>, crash |-> FALSE]
          ELSE ForTasks(S, Tail(order))

QueueGetNewest(q) == [item |-> q[Len(q)], rest |-> SubSeq(q, 1, Len(q) - 1)]

\* await queue.get() on a non-empty asyncio.Queue: the oldest item leaves
QueueGet(q) == [item |-> Head(q), rest |-> Tail(q)]

RemoveNothing(set, q) == [set |-> set, raised |-> q \notin set]

\* set.remove(queue): raises KeyError when the queue is not in the set
Remove(set, q) == [set |-> set \ {q}, raised |-> q \notin set]

\* ---------------------------------------------------------- initial state

Init ==
  /\ session_names = << >>
  /\ uuid_next = 1
  /\ published = <<>>
  /\ start_returned = [n \in Names |-> NoId]
  /\ stop = [s \in StopCalls |-> StopIdle]
  /\ listen = [l \in ListenCalls |-> ListenIdle]
  /\ handler_topics = [c \in Callers |-> {}]
  /\ handler_queue = [c \in Callers |-> <<>>]
  /\ consumed = [c \in Callers |-> <<>>]
  /\ replies = <<>>
  /\ mqtt_websockets = {}
  /\ message_queues = {}
  /\ subscribed = {}
  /\ core_up = TRUE
  /\ core = 0
  /\ queue = [o \in Owners |-> <<>>]
  /\ ws = [w \in WsSessions |-> WsIdle]
  /\ sent = [w \in WsSessions |-> <<>>]
  /\ get = [g \in GetCalls |-> GetIdle]
  /\ delivered = <<>>
  /\ client_published = <<>>
  /\ frames = 0
  /\ restarts = 0
  /\ logging_websockets = {}
  /\ log_ws = [l \in LogSessions |-> LogIdle]
  /\ bcast = NoBroadcast
  /\ bcasts = <<>>
  /\ broadcasts = 0
  /\ match = NoMatch
  /\ pipeline = [c \in Pipelines |-> PipelineIdle]

\* ---------------------------------------------------- api_start_recording

StartMessagesNone(sessionId) == <<>>

\* what api_start_recording gives to core.publish
StartMessages(sessionId) == <<Msg("AsrStartListening", sessionId, <<"start", 0>>)>>

\* POST /api/start-recording?name=...: no suspension point, one step
api_start_recording(name) ==
  /\ uuid_next <= MaxIds
  /\ LET sessionId == uuid_next
     IN /\ uuid_next' = uuid_next + 1
        /\ published' = PublishInOrder(published, StartMessages(sessionId))
        /\ session_names' = DictSet(session_names, name, sessionId)
        /\ start_returned' = [start_returned EXCEPT ![name] = sessionId]
  /\ UNCHANGED hubVars
  /\ UNCHANGED <<bcastVars, match, pipeline>>
  /\ UNCHANGED <<stop, listen, handler_topics, handler_queue, consumed, replies>>

\* ----------------------------------------------------- api_stop_recording

\* POST /api/stop-recording up to the first suspension inside publish_wait
api_stop_recording(s, name, no_hass) ==
  /\ stop[s].pc = "idle"
  /\ \A t \in StopCalls : t < s => stop[t].pc # "idle"
  /\ LET by == <<"stop", s>>
     IN IF name \notin DOMAIN session_names
        THEN \* assert name in session_names fails; the finally block runs
             /\ stop' = [stop EXCEPT ![s] = [StopIdle EXCEPT
                          !.pc = "done", !.name = name, !.no_hass = no_hass,
                          !.result = "AssertionError"]]
             /\ published' = PublishInOrder(published,
                               ToggleOff(no_hass, by) \o ToggleOn(no_hass, by))
             /\ UNCHANGED <<session_names, handler_topics, handler_queue>>
        ELSE LET sessionId == session_names[name]
             IN /\ session_names' = DictPop(session_names, name)
                /\ stop' = [stop EXCEPT ![s] = [StopIdle EXCEPT
                             !.pc = "wait", !.name = name, !.no_hass = no_hass,
                             !.sessionId = sessionId]]
                /\ Register(by, {"AsrTextCaptured"})
                /\ published' = PublishInOrder(published,
                                  ToggleOff(no_hass, by)
                                  \o <<Msg("AsrStopListening", sessionId, by)>>)
  /\ UNCHANGED hubVars
  /\ UNCHANGED <<bcastVars, match, pipeline>>
  /\ UNCHANGED <<uuid_next, start_returned, listen, consumed, replies>>

\* one message of the private queue goes through handle_captured
stop_receive(s) ==
  LET by == <<"stop", s>> IN
  /\ stop[s].pc = "wait"
  /\ handler_queue[by] # <<>>
  /\ LET message == Head(handler_queue[by])
         r == StopHandleCaptured(message, stop[s].sessionId)
     IN /\ consumed' = [consumed EXCEPT ![by] = Append(@, message)]
        /\ IF r = NoMsg
           THEN /\ handler_queue' = [handler_queue EXCEPT ![by] = Tail(@)]
                /\ UNCHANGED <<stop, handler_topics>>
           ELSE /\ Deregister(by)
                /\ stop' = [stop EXCEPT ![s].pc = "intent", ![s].text_captured = r]
  /\ UNCHANGED hubVars
  /\ UNCHANGED <<bcastVars, match, pipeline>>
  /\ UNCHANGED <<session_names, uuid_next, published, start_returned, listen, replies>>

\* the deadline of publish_wait passes without a result: text_captured stays
\* None, the request fails and the finally block runs
stop_timeout(s) ==
  LET by == <<"stop", s>> IN
  /\ stop[s].pc = "wait"
  /\ Deregister(by)
  /\ stop' = [stop EXCEPT ![s].pc = "done", ![s].result = "TimedOut"]
  /\ published' = PublishInOrder(published, ToggleOn(stop[s].no_hass, by))
  /\ UNCHANGED hubVars
  /\ UNCHANGED <<bcastVars, match, pipeline>>
  /\ UNCHANGED <<session_names, uuid_next, start_returned, listen, consumed, replies>>

\* text_to_intent_dict returns (ok) or raises; the finally block runs
stop_intent(s, ok) ==
  LET by == <<"stop", s>> IN
  /\ stop[s].pc = "intent"
  /\ stop' = [stop EXCEPT ![s].pc = "done",
                          ![s].result = IF ok THEN "intent_dict" ELSE "Error"]
  /\ published' = PublishInOrder(published, ToggleOn(stop[s].no_hass, by))
  /\ UNCHANGED hubVars
  /\ UNCHANGED <<bcastVars, match, pipeline>>
  /\ UNCHANGED <<session_names, uuid_next, start_returned, listen,
                 handler_topics, handler_queue, consumed, replies>>

\* ------------------------------------------------- api_listen_for_command

\* POST /api/listen-for-command up to the first suspension inside the first
\* publish_wait
api_listen_for_command(l, no_hass) ==
  /\ listen[l].pc = "idle"
  /\ \A t \in ListenCalls : t < l => listen[t].pc # "idle"
  /\ uuid_next <= MaxIds
  /\ LET by == <<"listen", l>>
         sessionId == uuid_next
     IN /\ uuid_next' = uuid_next + 1
        /\ listen' = [listen EXCEPT ![l] = [ListenIdle EXCEPT
                        !.pc = "wait_text", !.no_hass = no_hass,
                        !.sessionId = sessionId]]
        /\ Register(by, {"AsrTextCaptured", "AsrError"})
        /\ published' = PublishInOrder(published,
                          ToggleOff(no_hass, by)
                          \o <<Msg("AsrStartListening", sessionId, by)>>)
  /\ UNCHANGED hubVars
  /\ UNCHANGED <<bcastVars, match, pipeline>>
  /\ UNCHANGED <<session_names, start_returned, stop, consumed, replies>>

\* one message of the first private queue goes through handle_captured; on
\* AsrTextCaptured the request goes on to the second publish_wait
listen_receive_text(l) ==
  LET by == <<"listen", l>> IN
  /\ listen[l].pc = "wait_text"
  /\ handler_queue[by] # <<>>
  /\ LET message == Head(handler_queue[by])
         r == ListenHandleCaptured(message, listen[l].sessionId)
     IN /\ consumed' = [consumed EXCEPT ![by] = Append(@, message)]
        /\ IF r = NoMsg
           THEN /\ handler_queue' = [handler_queue EXCEPT ![by] = Tail(@)]
                /\ UNCHANGED <<listen, handler_topics, published>>
           ELSE IF r.type = "AsrError"
           THEN \* raise RuntimeError(text_captured.error)
                /\ Deregister(by)
                /\ listen' = [listen EXCEPT ![l].pc = "done", ![l].text_captured = r,
                                            ![l].result = "RuntimeError"]
                /\ published' = PublishInOrder(published, ToggleOn(listen[l].no_hass, by))
           ELSE /\ Register(by, {"NluIntent", "NluIntentNotRecognized", "NluError"})
                /\ listen' = [listen EXCEPT ![l].pc = "wait_intent",
                                            ![l].text_captured = r]
                /\ published' = PublishInOrder(published,
                                  ListenIntentMessages(listen[l].sessionId, by))
  /\ UNCHANGED hubVars
  /\ UNCHANGED <<bcastVars, match, pipeline>>
  /\ UNCHANGED <<session_names, uuid_next, start_returned, stop, replies>>

\* one message of the second private queue goes through handle_intent
listen_receive_intent(l) ==
  LET by == <<"listen", l>> IN
  /\ listen[l].pc = "wait_intent"
  /\ handler_queue[by] # <<>>
  /\ LET message == Head(handler_queue[by])
         r == ListenHandleIntent(message, listen[l].sessionId)
     IN /\ consumed' = [consumed EXCEPT ![by] = Append(@, message)]
        /\ IF r = NoMsg
           THEN /\ handler_queue' = [handler_queue EXCEPT ![by] = Tail(@)]
                /\ UNCHANGED <<listen, handler_topics, published>>
           ELSE /\ Deregister(by)
                /\ listen' = [listen EXCEPT ![l].pc = "done", ![l].nlu_intent = r,
                                ![l].result = IF r.type = "NluError"
                                              THEN "RuntimeError" ELSE "intent_dict"]
                /\ published' = PublishInOrder(published, ToggleOn(listen[l].no_hass, by))
  /\ UNCHANGED hubVars
  /\ UNCHANGED <<bcastVars, match, pipeline>>
  /\ UNCHANGED <<session_names, uuid_next, start_returned, stop, replies>>

\* the deadline of either publish_wait passes without a result: the request
\* fails and the finally block runs
listen_timeout(l) ==
  LET by == <<"listen", l>> IN
  /\ listen[l].pc \in {"wait_text", "wait_intent"}
  /\ Deregister(by)
  /\ listen' = [listen EXCEPT ![l].pc = "done", ![l].result = "TimedOut"]
  /\ published' = PublishInOrder(published, ToggleOn(listen[l].no_hass, by))
  /\ UNCHANGED hubVars
  /\ UNCHANGED <<bcastVars, match, pipeline>>
  /\ UNCHANGED <<session_names, uuid_next, start_returned, stop, consumed, replies>>

\* ------------------------------ api_text_to_intent, api_speech_to_intent

\* POST /api/text-to-intent up to the suspension inside text_to_intent_dict
api_text_to_intent(t, no_hass) ==
  LET by == <<"text", t>> IN
  /\ pipeline[by].pc = "idle"
  /\ pipeline' = [pipeline EXCEPT ![by] = [PipelineIdle EXCEPT
                     !.pc = "intent", !.no_hass = no_hass]]
  /\ published' = PublishInOrder(published, ToggleOff(no_hass, by))
  /\ UNCHANGED hubVars
  /\ UNCHANGED <<bcastVars, match>>
  /\ UNCHANGED <<session_names, uuid_next, start_returned, stop, listen,
                 handler_topics, handler_queue, consumed, replies>>

\* text_to_intent_dict returns (ok) or raises; the finally block runs
text_to_intent_return(t, ok) ==
  LET by == <<"text", t>> IN
  /\ pipeline[by].pc = "intent"
  /\ pipeline' = [pipeline EXCEPT ![by].pc = "done",
                     ![by].result = IF ok THEN "intent_dict" ELSE "Error"]
  /\ published' = PublishInOrder(published, ToggleOn(pipeline[by].no_hass, by))
  /\ UNCHANGED hubVars
  /\ UNCHANGED <<bcastVars, match>>
  /\ UNCHANGED <<session_names, uuid_next, start_returned, stop, listen,
                 handler_topics, handler_queue, consumed, replies>>

\* POST /api/speech-to-intent up to the suspension in request.data or in
\* core.transcribe_wav
api_speech_to_intent(s, no_hass) ==
  LET by == <<"speech", s>> IN
  /\ pipeline[by].pc = "idle"
  /\ pipeline' = [pipeline EXCEPT ![by] = [PipelineIdle EXCEPT
                     !.pc = "transcribe", !.no_hass = no_hass]]
  /\ published' = PublishInOrder(published, ToggleOff(no_hass, by))
  /\ UNCHANGED hubVars
  /\ UNCHANGED <<bcastVars, match>>
  /\ UNCHANGED <<session_names, uuid_next, start_returned, stop, listen,
                 handler_topics, handler_queue, consumed, replies>>

\* core.transcribe_wav returns (ok) and the request goes on to
\* text_to_intent_dict, or it raises and the finally block runs
speech_transcribed(s, ok) ==
  LET by == <<"speech", s>> IN
  /\ pipeline[by].pc = "transcribe"
  /\ IF ok
     THEN /\ pipeline' = [pipeline EXCEPT ![by].pc = "intent"]
          /\ UNCHANGED published
     ELSE /\ pipeline' = [pipeline EXCEPT ![by].pc = "done", ![by].result = "Error"]
          /\ published' = PublishInOrder(published, ToggleOn(pipeline[by].no_hass, by))
  /\ UNCHANGED hubVars
  /\ UNCHANGED <<bcastVars, match>>
  /\ UNCHANGED <<session_names, uuid_next, start_returned, stop, listen,
                 handler_topics, handler_queue, consumed, replies>>

\* text_to_intent_dict returns (ok) or raises; the finally block runs
speech_to_intent_return(s, ok) ==
  LET by == <<"speech", s>> IN
  /\ pipeline[by].pc = "intent"
  /\ pipeline' = [pipeline EXCEPT ![by].pc = "done",
                     ![by].result = IF ok THEN "intent_dict" ELSE "Error"]
  /\ published' = PublishInOrder(published, ToggleOn(pipeline[by].no_hass, by))
  /\ UNCHANGED hubVars
  /\ UNCHANGED <<bcastVars, match>>
  /\ UNCHANGED <<session_names, uuid_next, start_returned, stop, listen,
                 handler_topics, handler_queue, consumed, replies>>

\* ---------------------------------------------------- api_listen_for_wake

\* what api_listen_for_wake gives to core.publish
WakeMessages(toggle_off) ==
  <<Msg(IF toggle_off THEN "HotwordToggleOff" ELSE "HotwordToggleOn",
        NoId, <<"wake", 0>>)>>

\* POST /api/listen-for-wake: the body says off or on; one step
api_listen_for_wake(toggle_off) ==
  /\ Cardinality({i \in DOMAIN published : published[i].by = <<"wake", 0>>}) < MaxWakes
  /\ published' = PublishInOrder(published, WakeMessages(toggle_off))
  /\ UNCHANGED hubVars
  /\ UNCHANGED <<bcastVars, match, pipeline>>
  /\ UNCHANGED <<session_names, uuid_next, start_returned, stop, listen,
                 handler_topics, handler_queue, consumed, replies>>

\* ------------------------------------------------------------ bus inbound

\* the bus delivers one Hermes reply: it is appended to the private queue of
\* every publish_wait caller registered for its topic
deliver_reply(type, sessionId) ==
  /\ Len(replies) < MaxReplies
  /\ sessionId < uuid_next
  /\ \E c \in Callers : type \in handler_topics[c]
  /\ LET message == Reply(type, sessionId, Len(replies) + 1)
     IN /\ replies' = Append(replies, message)
        /\ handler_queue' = [c \in Callers |->
              IF type \in handler_topics[c]
              THEN Append(handler_queue[c], message) ELSE handler_queue[c]]
  /\ UNCHANGED hubVars
  /\ UNCHANGED <<bcastVars, match, pipeline>>
  /\ UNCHANGED <<session_names, uuid_next, published, start_returned, stop, listen,
                 handler_topics, consumed>>

\* --------------------------------------------------------- mqtt_websocket

\* the wrapper's finally block, reached with the locals x: the queue leaves
\* both sets (the second being that of the core object `core` is bound to
\* now). On /api/mqtt the queue object lives on with what it buffers, held
\* by the queue.get() of the send task, which nothing cancels; on the other
\* routes nothing refers to it any more and it goes away with its buffer
Teardown(w, x, how) ==
  LET r == Remove(message_queues, w)
  IN /\ mqtt_websockets' = Remove(mqtt_websockets, w).set
     /\ message_queues' = r.set
     /\ queue' = [queue EXCEPT ![w] = IF x.route = "mqtt" THEN @ ELSE <<>>]
     /\ ws' = [ws EXCEPT ![w] = [x EXCEPT !.pc = "closed", !.exit = how,
                   !.teardown = IF r.raised THEN "KeyError" ELSE "ok"]]

\* the session is at a suspension point of its handler
Running(w) == ws[w].pc \in {"wait", "send"}

\* a client connects to /api/mqtt: the wrapper registers a new queue and
\* api_ws_mqtt arms its two tasks
ws_connect_mqtt(w) ==
  /\ ws[w].pc = "idle"
  /\ mqtt_websockets' = mqtt_websockets \cup {w}
  /\ message_queues' = message_queues \cup {w}
  /\ queue' = [queue EXCEPT ![w] = <<>>]
  /\ ws' = [ws EXCEPT ![w] = [WsIdle EXCEPT
               !.pc = "wait", !.route = "mqtt",
               !.receive_task = Task(1, "pending", NoFrame),
               !.send_task = Task(1, "pending", NoItem),
               !.pending = {<<"receive", 1>>, <<"send", 1>>}]]
  /\ UNCHANGED <<subscribed, core_up, core, sent, get, delivered, client_published,
                 frames, restarts>>
  /\ UNCHANGED recVars
  /\ UNCHANGED <<bcastVars, match, pipeline>>

\* a client connects to /api/mqtt/<topic>: the wrapper registers a new queue
\* and api_ws_mqtt_topic subscribes to the topic of the path
ws_connect_topic(w, pattern) ==
  /\ ws[w].pc = "idle"
  /\ mqtt_websockets' = mqtt_websockets \cup {w}
  /\ message_queues' = message_queues \cup {w}
  /\ queue' = [queue EXCEPT ![w] = <<>>]
  /\ subscribed' = subscribed \cup {pattern}
  /\ ws' = [ws EXCEPT ![w] = [WsIdle EXCEPT
               !.pc = "wait", !.route = "topic", !.topic_matcher = {pattern},
               !.sub_at = [p \in {pattern} |-> Len(delivered)]]]
  /\ UNCHANGED <<core_up, core, sent, get, delivered, client_published, frames,
                 restarts>>
  /\ UNCHANGED recVars
  /\ UNCHANGED <<bcastVars, match, pipeline>>

\* a client connects to /api/events/intent, /api/events/wake or
\* /api/events/text: the wrapper registers a new queue
ws_connect_event(w, kind) ==
  /\ ws[w].pc = "idle"
  /\ mqtt_websockets' = mqtt_websockets \cup {w}
  /\ message_queues' = message_queues \cup {w}
  /\ queue' = [queue EXCEPT ![w] = <<>>]
  /\ ws' = [ws EXCEPT ![w] = [WsIdle EXCEPT !.pc = "wait", !.route = kind]]
  /\ UNCHANGED <<subscribed, core_up, core, sent, get, delivered, client_published,
                 frames, restarts>>
  /\ UNCHANGED recVars
  /\ UNCHANGED <<bcastVars, match, pipeline>>

\* the client sends a frame: the pending websocket.receive() task completes,
\* wherever the handler is suspended
ws_frame(w, frame) ==
  /\ Running(w) /\ ws[w].route = "mqtt"
  /\ ws[w].receive_task.state = "pending"
  /\ frames < MaxFrames
  /\ frames' = frames + 1
  /\ ws' = [ws EXCEPT ![w].receive_task = Task(@.id, "done", frame)]
  /\ UNCHANGED <<mqtt_websockets, message_queues, subscribed, core_up, core, queue,
                 sent, get, delivered, client_published, restarts>>
  /\ UNCHANGED recVars
  /\ UNCHANGED <<bcastVars, match, pipeline>>

\* the transport fails: the pending websocket.receive() task ends with an error
ws_transport_error(w) ==
  /\ Running(w) /\ ws[w].route = "mqtt"
  /\ ws[w].receive_task.state = "pending"
  /\ frames < MaxFrames
  /\ frames' = frames + 1
  /\ ws' = [ws EXCEPT ![w].receive_task = Task(@.id, "error", NoFrame)]
  /\ UNCHANGED <<mqtt_websockets, message_queues, subscribed, core_up, core, queue,
                 sent, get, delivered, client_published, restarts>>
  /\ UNCHANGED recVars
  /\ UNCHANGED <<bcastVars, match, pipeline>>

\* the pending queue.get() task takes the oldest item of the queue; the task
\* is the event loop's to run, also after the handler that created it has
\* ended
ws_queue_get(w) ==
  /\ ws[w].pc \in {"wait", "send", "closed"} /\ ws[w].route = "mqtt"
  /\ ws[w].send_task.state = "pending"
  /\ queue[w] # <<>>
  /\ ws' = [ws EXCEPT ![w].send_task = Task(@.id, "done", QueueGet(queue[w]).item)]
  /\ queue' = [queue EXCEPT ![w] = QueueGet(queue[w]).rest]
  /\ UNCHANGED <<mqtt_websockets, message_queues, subscribed, core_up, core, sent,
                 get, delivered, client_published, frames, restarts>>
  /\ UNCHANGED recVars
  /\ UNCHANGED <<bcastVars, match, pipeline>>

\* what a session gives to core.client.publish, with the session it came from
ByClient(w, seq) ==
  [i \in 1 .. Len(seq) |->
     [topic |-> seq[i].topic, payload |-> seq[i].payload, by |-> w]]

\* asyncio.wait returns and the loop body runs for the tasks that are done,
\* up to the next asyncio.wait or to the suspension in websocket.send;
\* `first` is the task the iteration over the set `done` meets first
ws_wake(w, first) ==
  LET done == Done(ws[w])
      \* `task is receive_task`, `task is send_task`
      first_task == IF first = "receive" THEN <<"receive", ws[w].receive_task.id>>
                    ELSE <<"send", ws[w].send_task.id>>
      F == ForTasks(AfterWait(ws[w]), Handled(done, first_task))
  IN
  /\ ws[w].pc = "wait" /\ ws[w].route = "mqtt"
  /\ first_task \in done
  /\ subscribed' = subscribed \cup F.subscribe
  /\ client_published' = client_published \o ByClient(w, F.publish)
  /\ IF F.crash
     THEN Teardown(w, F.ws, "UnboundLocalError")
     ELSE /\ ws' = [ws EXCEPT ![w] = F.ws]
          /\ UNCHANGED <<mqtt_websockets, message_queues, queue>>
  /\ UNCHANGED <<core_up, core, sent, get, delivered, frames, restarts>>
  /\ UNCHANGED recVars
  /\ UNCHANGED <<bcastVars, match, pipeline>>

\* websocket.send of api_ws_mqtt returns (send_ok) or raises: the send branch
\* ends, and the loop body runs for the tasks of `done` it had not reached
ws_send_return(w, send_ok) ==
  LET x == ws[w]
      frame == Head(x.out)
      more == send_ok /\ Tail(x.out) # <<>>
      F == ForTasks(SendEnd(x, frame.n, ~send_ok), x.done)
  IN
  /\ ws[w].pc = "send" /\ ws[w].route = "mqtt"
  /\ sent' = [sent EXCEPT ![w] = IF send_ok THEN Append(@, frame) ELSE @]
  /\ IF more
     THEN /\ ws' = [ws EXCEPT ![w].out = Tail(@)]
          /\ UNCHANGED <<subscribed, client_published, mqtt_websockets,
                         message_queues, queue>>
     ELSE /\ subscribed' = subscribed \cup F.subscribe
          /\ client_published' = client_published \o ByClient(w, F.publish)
          /\ IF F.crash
             THEN Teardown(w, F.ws, "UnboundLocalError")
             ELSE /\ ws' = [ws EXCEPT ![w] = F.ws]
                  /\ UNCHANGED <<mqtt_websockets, message_queues, queue>>
  /\ UNCHANGED <<core_up, core, get, delivered, frames, restarts>>
  /\ UNCHANGED recVars
  /\ UNCHANGED <<bcastVars, match, pipeline>>

\* the loop of a route that reads its queue itself takes the oldest item:
\* up to websocket.send when the item is to be sent, else to the next
\* queue.get()
LoopGet(w, r) ==
  LET item == QueueGet(queue[w]).item
  IN /\ queue[w] # <<>>
     /\ queue' = [queue EXCEPT ![w] = QueueGet(queue[w]).rest]
     /\ ws' = [ws EXCEPT ![w] =
                 IF r.out # <<>>
                 THEN [ws[w] EXCEPT !.pc = "send", !.out = r.out]
                 ELSE [ws[w] EXCEPT !.handled = @ \cup {item.n},
                                !.failed = IF r.raised THEN @ \cup {item.n} ELSE @]]

\* websocket.send of such a loop returns (send_ok) or raises: the except
\* clause swallows the exception and the loop goes on
LoopSendReturn(w, send_ok) ==
  LET frame == Head(ws[w].out)
      more == send_ok /\ Tail(ws[w].out) # <<>>
  IN /\ sent' = [sent EXCEPT ![w] = IF send_ok THEN Append(@, frame) ELSE @]
     /\ ws' = [ws EXCEPT ![w] =
                 IF more THEN [ws[w] EXCEPT !.out = Tail(@)]
                 ELSE [ws[w] EXCEPT !.pc = "wait", !.out = <<>>,
                                !.handled = @ \cup {frame.n},
                                !.failed = IF send_ok THEN @ ELSE @ \cup {frame.n}]]

\* one round of the loop of api_ws_mqtt_topic, from queue.get()
ws_topic_receive(w) ==
  /\ ws[w].pc = "wait" /\ ws[w].route = "topic"
  /\ queue[w] # <<>>
  /\ LoopGet(w, SendItem(QueueGet(queue[w]).item, ws[w].topic_matcher))
  /\ UNCHANGED <<mqtt_websockets, message_queues, subscribed, core_up, core, sent,
                 get, delivered, client_published, frames, restarts>>
  /\ UNCHANGED recVars
  /\ UNCHANGED <<bcastVars, match, pipeline>>

\* websocket.send of api_ws_mqtt_topic returns or raises
ws_topic_send_return(w, send_ok) ==
  /\ ws[w].pc = "send" /\ ws[w].route = "topic"
  /\ LoopSendReturn(w, send_ok)
  /\ UNCHANGED <<mqtt_websockets, message_queues, subscribed, core_up, core, queue,
                 get, delivered, client_published, frames, restarts>>
  /\ UNCHANGED recVars
  /\ UNCHANGED <<bcastVars, match, pipeline>>

\* one round of the loop of api_ws_intent, api_ws_wake or api_ws_text, from
\* queue.get()
ws_event_receive(w) ==
  /\ ws[w].pc = "wait" /\ ws[w].route \in EventKinds
  /\ queue[w] # <<>>
  /\ LoopGet(w, SendEvent(QueueGet(queue[w]).item, ws[w].route))
  /\ UNCHANGED <<mqtt_websockets, message_queues, subscribed, core_up, core, sent,
                 get, delivered, client_published, frames, restarts>>
  /\ UNCHANGED recVars
  /\ UNCHANGED <<bcastVars, match, pipeline>>

\* websocket.send of api_ws_intent, api_ws_wake or api_ws_text returns or
\* raises
ws_event_send_return(w, send_ok) ==
  /\ ws[w].pc = "send" /\ ws[w].route \in EventKinds
  /\ LoopSendReturn(w, send_ok)
  /\ UNCHANGED <<mqtt_websockets, message_queues, subscribed, core_up, core, queue,
                 get, delivered, client_published, frames, restarts>>
  /\ UNCHANGED recVars
  /\ UNCHANGED <<bcastVars, match, pipeline>>

\* the transport closes: the handler is cancelled at its suspension point
\* (a frame websocket.send was suspended on is lost) and the wrapper's
\* finally block runs
ws_close(w) ==
  /\ Running(w)
  /\ Teardown(w, ws[w], "CancelledError")
  /\ UNCHANGED <<subscribed, core_up, core, sent, get, delivered,
                 client_published, frames, restarts>>
  /\ UNCHANGED recVars
  /\ UNCHANGED <<bcastVars, match, pipeline>>

\* ---------------------------------------------------------- api_mqtt GET

\* the finally block of the GET branch
GetTeardown(g, result, response) ==
  LET r == Remove(message_queues, g)
  IN /\ message_queues' = r.set
     /\ queue' = [queue EXCEPT ![g] = <<>>]
     /\ get' = [get EXCEPT ![g].pc = "done", ![g].result = result,
                           ![g].response = response,
                           ![g].teardown = IF r.raised THEN "KeyError" ELSE "ok"]

\* GET /api/mqtt/<topic> up to its first queue.get()
api_mqtt_get(g, pattern) ==
  /\ get[g].pc = "idle"
  /\ subscribed' = subscribed \cup {pattern}
  /\ message_queues' = message_queues \cup {g}
  /\ queue' = [queue EXCEPT ![g] = <<>>]
  /\ get' = [get EXCEPT ![g] = [GetIdle EXCEPT
                !.pc = "wait", !.topic_matcher = {pattern},
                !.since = Len(delivered)]]
  /\ UNCHANGED <<mqtt_websockets, core_up, core, ws, sent, delivered, client_published,
                 frames, restarts>>
  /\ UNCHANGED recVars
  /\ UNCHANGED <<bcastVars, match, pipeline>>

\* one round of the while loop: an item that matches ends the request, with
\* the response or with the error of json.loads; any other item is dropped
get_receive(g) ==
  /\ get[g].pc = "wait"
  /\ queue[g] # <<>>
  /\ LET item == QueueGet(queue[g]).item
         j == JsonLoads(item.payload)
     IN IF Passes(item, get[g].topic_matcher)
        THEN IF j.ok
             THEN GetTeardown(g, "response", Item("mqtt", item.topic, j.value, item.n))
             ELSE GetTeardown(g, "JSONDecodeError", NoItem)
        ELSE /\ queue' = [queue EXCEPT ![g] = QueueGet(queue[g]).rest]
             /\ UNCHANGED <<get, message_queues>>
  /\ UNCHANGED <<mqtt_websockets, subscribed, core_up, core, ws, sent, delivered,
                 client_published, frames, restarts>>
  /\ UNCHANGED recVars
  /\ UNCHANGED <<bcastVars, match, pipeline>>

\* the HTTP client goes away: the handler is cancelled at queue.get()
get_cancel(g) ==
  /\ get[g].pc = "wait"
  /\ GetTeardown(g, "CancelledError", NoItem)
  /\ UNCHANGED <<mqtt_websockets, subscribed, core_up, core, ws, sent, delivered,
                 client_published, frames, restarts>>
  /\ UNCHANGED recVars
  /\ UNCHANGED <<bcastVars, match, pipeline>>

\* POST /api/mqtt/<topic>: the body goes to the broker as it is
api_mqtt_post(topic, payload) ==
  /\ Cardinality({i \in DOMAIN client_published : client_published[i].by = "post"})
       < MaxPosts
  /\ client_published' = client_published
        \o ByClient("post", <<ClientPublish(topic, payload)>>)
  /\ UNCHANGED <<mqtt_websockets, message_queues, subscribed, core_up, core, queue,
                 ws, sent, get, delivered, frames, restarts>>
  /\ UNCHANGED recVars
  /\ UNCHANGED <<bcastVars, match, pipeline>>

\* --------------------------------------------------- bus inbound (MQTT)

\* the broker forwards a message on a topic the client is subscribed to; the
\* core puts ("mqtt", topic, payload) into every queue of message_queues
deliver_mqtt(topic, payload) ==
  /\ core_up
  /\ Len(delivered) < MaxDeliver
  /\ \E p \in subscribed : Matches(p, topic)
  /\ LET item == Item("mqtt", topic, payload, Len(delivered) + 1)
     IN /\ delivered' = Append(delivered, item)
        /\ queue' = [o \in Owners |->
              IF o \in message_queues THEN Append(queue[o], item) ELSE queue[o]]
  /\ UNCHANGED <<mqtt_websockets, message_queues, subscribed, core_up, core, ws, sent,
                 get, client_published, frames, restarts>>
  /\ UNCHANGED recVars
  /\ UNCHANGED <<bcastVars, match, pipeline>>

\* the core puts an item of another kind ("intent", "wake", "text") into
\* every queue of message_queues
deliver_event(kind) ==
  /\ core_up
  /\ Len(delivered) < MaxDeliver
  /\ message_queues # {}
  /\ LET item == Item(kind, <<>>, "", Len(delivered) + 1)
     IN /\ delivered' = Append(delivered, item)
        /\ queue' = [o \in Owners |->
              IF o \in message_queues THEN Append(queue[o], item) ELSE queue[o]]
  /\ UNCHANGED <<mqtt_websockets, message_queues, subscribed, core_up, core, ws, sent,
                 get, client_published, frames, restarts>>
  /\ UNCHANGED recVars
  /\ UNCHANGED <<bcastVars, match, pipeline>>

\* ------------------------------------------------------------ api_restart

\* POST /api/restart up to its suspension in core.shutdown(): the core stops
\* delivering
restart_shutdown ==
  /\ core_up
  /\ restarts < MaxRestarts
  /\ restarts' = restarts + 1
  /\ core_up' = FALSE
  /\ UNCHANGED <<mqtt_websockets, message_queues, subscribed, core, queue, ws, sent,
                 get, delivered, client_published, frames>>
  /\ UNCHANGED recVars
  /\ UNCHANGED <<bcastVars, match, pipeline>>

\* core.shutdown() returns and start_rhasspy() runs up to its suspension in
\* core.start(): `core` is bound to a new RhasspyCore, with a message_queues
\* set and an MQTT client of its own
restart_start ==
  /\ ~core_up
  /\ core < restarts
  /\ core' = core + 1
  /\ message_queues' = {}
  /\ subscribed' = {}
  /\ UNCHANGED <<mqtt_websockets, core_up, queue, ws, sent, get, delivered,
                 client_published, frames, restarts>>
  /\ UNCHANGED recVars
  /\ UNCHANGED <<bcastVars, match, pipeline>>

\* core.start() of the new core returns: the core delivers again
restart_started ==
  /\ ~core_up
  /\ core = restarts
  /\ core_up' = TRUE
  /\ UNCHANGED <<mqtt_websockets, message_queues, subscribed, core, queue, ws, sent,
                 get, delivered, client_published, frames, restarts>>
  /\ UNCHANGED recVars
  /\ UNCHANGED <<bcastVars, match, pipeline>>

\* ------------------------------------------------- the matcher on its own

\* matcher = MQTTMatcher(); matcher[pattern] = True;
\* then `for _ in matcher.iter_match(topic)`: whether the loop body runs
iter_match(pattern, topic) ==
  /\ ~match.called
  /\ match' = [pattern |-> pattern, topic |-> topic,
               result |-> IterMatch({pattern}, topic) # {}, called |-> TRUE]
  /\ UNCHANGED <<bcastVars, hubVars, recVars, pipeline>>

\* ---------------------------------------- logging_websocket and broadcasts

\* the wrapper's finally block of logging_websocket
LogTeardown(l, how) ==
  /\ logging_websockets' = Remove(logging_websockets, l).set
  /\ queue' = [queue EXCEPT ![l] = <<>>]
  /\ log_ws' = [log_ws EXCEPT ![l].pc = "closed", ![l].exit = how]

\* a client connects to /api/events/log: the wrapper registers a new queue
log_connect(l) ==
  /\ log_ws[l].pc = "idle"
  /\ logging_websockets' = logging_websockets \cup {l}
  /\ queue' = [queue EXCEPT ![l] = <<>>]
  /\ log_ws' = [log_ws EXCEPT ![l].pc = "wait"]
  /\ UNCHANGED <<bcast, bcasts, broadcasts, match, pipeline>>
  /\ UNCHANGED <<mqtt_websockets, message_queues, subscribed, core_up, core, ws, sent,
                 get, delivered, client_published, frames, restarts>>
  /\ UNCHANGED recVars

\* the loop of api_events_log takes the oldest message of its queue and
\* hands it to websocket.send
log_receive(l) ==
  /\ log_ws[l].pc = "wait"
  /\ queue[l] # <<>>
  /\ queue' = [queue EXCEPT ![l] = QueueGet(queue[l]).rest]
  /\ log_ws' = [log_ws EXCEPT ![l].pc = "send",
                              ![l].message = QueueGet(queue[l]).item.n]
  /\ UNCHANGED <<logging_websockets, bcast, bcasts, broadcasts, match, pipeline>>
  /\ UNCHANGED <<mqtt_websockets, message_queues, subscribed, core_up, core, ws, sent,
                 get, delivered, client_published, frames, restarts>>
  /\ UNCHANGED recVars

\* websocket.send of api_events_log returns (send_ok), or raises: the
\* exception leaves the loop and the handler returns
log_send_return(l, send_ok) ==
  /\ log_ws[l].pc = "send"
  /\ IF send_ok
     THEN /\ log_ws' = [log_ws EXCEPT ![l].pc = "wait", ![l].message = 0,
                                      ![l].sent = Append(@, log_ws[l].message)]
          /\ UNCHANGED <<logging_websockets, queue>>
     ELSE LogTeardown(l, "return")
  /\ UNCHANGED <<bcast, bcasts, broadcasts, match, pipeline>>
  /\ UNCHANGED <<mqtt_websockets, message_queues, subscribed, core_up, core, ws, sent,
                 get, delivered, client_published, frames, restarts>>
  /\ UNCHANGED recVars

\* the transport of a /api/events/log connection closes: the handler is
\* cancelled at queue.get() or at websocket.send
log_close(l) ==
  /\ log_ws[l].pc \in {"wait", "send"}
  /\ LogTeardown(l, "CancelledError")
  /\ UNCHANGED <<bcast, bcasts, broadcasts, match, pipeline>>
  /\ UNCHANGED <<mqtt_websockets, message_queues, subscribed, core_up, core, ws, sent,
                 get, delivered, client_published, frames, restarts>>
  /\ UNCHANGED recVars

QueueFullAtOne(q) == Len(q) >= 1

\* asyncio.Queue.full(): never, for a queue without a limit; `await
\* queue.put(item)` suspends only while the queue is full
QueueFull(q) == QueueMaxSize > 0 /\ Len(q) >= QueueMaxSize

\* the set a broadcast iterates
Registered(kind) ==
  IF kind = "logging" THEN logging_websockets ELSE mqtt_websockets

\* the ways `for queue in <set>: await queue.put(item)` goes on from the
\* queues already visited, with the buffers q: to the end of the set when no
\* put suspends; otherwise into the put of a full queue, after some of the
\* queues that are not full (the program fixes no order for a set)
Iterate(q, set, visited) ==
  LET rest == set \ visited
      full == {o \in rest : QueueFull(q[o])}
  IN IF full = {}
     THEN {[pc |-> "done", put |-> rest, blocked |-> None]}
     ELSE {[pc |-> "suspended", put |-> b, blocked |-> o] :
             o \in full, b \in SUBSET (rest \ full)}

\* broadcast_logging(message) / broadcast_mqtt(topic, payload): from the call
\* (or from the put it is suspended in) to its next suspension, its return
\* or its exception. The set iterator raises RuntimeError when the size of
\* the set is no longer the one the iteration began with. broadcast_mqtt
\* puts the pair (topic, payload), whose first element is the topic.
broadcast(kind, topic, payload) ==
  LET starting == bcast.pc = "idle"
      b0 == IF starting
            THEN Broadcast("run", kind,
                           Item(IF kind = "logging" THEN "log" ELSE "topic",
                                topic, payload, broadcasts + 1),
                           Registered(kind), {}, None)
            ELSE [bcast EXCEPT !.put = @ \cup {bcast.blocked}]
      q0 == IF starting THEN queue
            ELSE [queue EXCEPT ![bcast.blocked] = Append(@, bcast.item)]
      set == Registered(b0.kind)
      changed == Cardinality(set) # Cardinality(b0.at_start)
      Ended(put, result) ==
        [kind |-> b0.kind, n |-> b0.item.n, at_start |-> b0.at_start,
         at_end |-> set, put |-> put, result |-> result]
  IN
  /\ IF starting
     THEN broadcasts < MaxBroadcasts
     ELSE /\ ~QueueFull(queue[bcast.blocked])
          /\ kind = bcast.kind /\ topic = bcast.item.topic
          /\ payload = bcast.item.payload
  /\ broadcasts' = IF starting THEN broadcasts + 1 ELSE broadcasts
  /\ IF changed
     THEN /\ queue' = q0
          /\ bcast' = NoBroadcast
          /\ bcasts' = Append(bcasts, Ended(b0.put, "RuntimeError"))
     ELSE \E r \in Iterate(q0, set, b0.put) :
            /\ queue' = [o \in Owners |->
                 IF o \in r.put THEN Append(q0[o], b0.item) ELSE q0[o]]
            /\ IF r.pc = "done"
               THEN /\ bcast' = NoBroadcast
                    /\ bcasts' = Append(bcasts, Ended(b0.put \cup r.put, "ok"))
               ELSE /\ bcast' = [b0 EXCEPT !.pc = "suspended",
                                           !.put = @ \cup r.put,
                                           !.blocked = r.blocked]
                    /\ UNCHANGED bcasts
  /\ UNCHANGED <<logging_websockets, log_ws, match, pipeline>>
  /\ UNCHANGED <<mqtt_websockets, message_queues, subscribed, core_up, core, ws, sent,
                 get, delivered, client_published, frames, restarts>>
  /\ UNCHANGED recVars

\* ------------------------------------------------------------------- spec

NextRec ==
  \/ \E name \in Names : api_start_recording(name)
  \/ \E s \in StopCalls, name \in Names, no_hass \in BOOLEAN :
        api_stop_recording(s, name, no_hass)
  \/ \E s \in StopCalls : stop_receive(s)
  \/ \E s \in StopCalls : stop_timeout(s)
  \/ \E s \in StopCalls, ok \in BOOLEAN : stop_intent(s, ok)
  \/ \E type \in AsrTypes, sessionId \in Ids : deliver_reply(type, sessionId)

SpecRec == Init /\ [][NextRec]_vars

NextWait ==
  \/ \E l \in ListenCalls, no_hass \in BOOLEAN : api_listen_for_command(l, no_hass)
  \/ \E l \in ListenCalls : listen_receive_text(l)
  \/ \E l \in ListenCalls : listen_receive_intent(l)
  \/ \E l \in ListenCalls : listen_timeout(l)
  \/ \E type \in ReplyTypes, sessionId \in Ids : deliver_reply(type, sessionId)

SpecWait == Init /\ [][NextWait]_vars

\* an api_listen_for_command request and an api_stop_recording request side
\* by side, both waiting on the topic of AsrTextCaptured
NextCorr ==
  \/ \E name \in Names : api_start_recording(name)
  \/ \E name \in Names : api_stop_recording(1, name, FALSE)
  \/ stop_receive(1)
  \/ stop_timeout(1)
  \/ \E ok \in BOOLEAN : stop_intent(1, ok)
  \/ api_listen_for_command(1, FALSE)
  \/ listen_receive_text(1)
  \/ listen_receive_intent(1)
  \/ listen_timeout(1)
  \/ \E type \in ReplyTypes, sessionId \in Ids : deliver_reply(type, sessionId)

SpecCorr == Init /\ [][NextCorr]_vars

\* the frames a WebSocket client sends
FramesIn ==
  {Frame("subscribe", p) : p \in Patterns}
  \cup {Frame("publish", <<"x", "1">>)}
  \cup {Frame(k, <<"x", "#">>) : k \in BadKinds}

\* the life of the consumers, from registration to every way out: one
\* WebSocket session (on /api/mqtt, on /api/mqtt/<topic> or on
\* /api/events/intent) and the GET waiter; the sends to the client succeed,
\* a payload that is not JSON is the error the send code meets
NextExit ==
  \/ ws_connect_mqtt("w1")
  \/ ws_connect_topic("w1", <<"x", "#">>)
  \/ ws_connect_event("w1", "intent")
  \/ ws_frame("w1", Frame("subscribe", <<"x", "#">>))
  \/ ws_transport_error("w1")
  \/ ws_queue_get("w1")
  \/ \E first \in {"receive", "send"} : ws_wake("w1", first)
  \/ ws_send_return("w1", TRUE)
  \/ ws_topic_receive("w1")
  \/ ws_topic_send_return("w1", TRUE)
  \/ ws_event_receive("w1")
  \/ ws_event_send_return("w1", TRUE)
  \/ ws_close("w1")
  \/ \E g \in GetCalls : api_mqtt_get(g, <<"x", "#">>)
  \/ \E g \in GetCalls : get_receive(g)
  \/ \E g \in GetCalls : get_cancel(g)
  \/ \E payload \in Payloads : deliver_mqtt(<<"x", "1">>, payload)
  \/ deliver_event("intent")

SpecExit == Init /\ [][NextExit]_vars

\* the same consumers with api_restart at any moment
NextOwners ==
  \/ NextExit
  \/ restart_shutdown
  \/ restart_start
  \/ restart_started

SpecOwners == Init /\ [][NextOwners]_vars

\* two consumers side by side: the first subscribes to x/# (by its route
\* /api/mqtt/x/# or by a subscribe frame on /api/mqtt), the second is a
\* /api/mqtt session whose client subscribes to y/#
NextIso ==
  \/ ws_connect_topic("w1", <<"x", "#">>)
  \/ ws_topic_receive("w1")
  \/ \E send_ok \in BOOLEAN : ws_topic_send_return("w1", send_ok)
  \/ \E w \in WsSessions : ws_connect_mqtt(w)
  \/ ws_frame("w1", Frame("subscribe", <<"x", "#">>))
  \/ ws_frame("w2", Frame("subscribe", <<"y", "#">>))
  \/ \E w \in WsSessions : ws_queue_get(w)
  \/ \E w \in WsSessions, first \in {"receive", "send"} : ws_wake(w, first)
  \/ \E w \in WsSessions, send_ok \in BOOLEAN : ws_send_return(w, send_ok)
  \/ \E w \in WsSessions : ws_close(w)
  \/ \E t \in {<<"x", "1">>, <<"y", "1">>} : deliver_mqtt(t, "\"ok\"")

SpecIso == Init /\ [][NextIso]_vars

\* fan-out: a /api/mqtt/events/# session, and a /api/mqtt session whose
\* client subscribes to events/# and to events/+
NextFan ==
  \/ ws_connect_topic("w1", <<"events", "#">>)
  \/ ws_topic_receive("w1")
  \/ \E send_ok \in BOOLEAN : ws_topic_send_return("w1", send_ok)
  \/ ws_connect_mqtt("w2")
  \/ \E p \in {<<"events", "#">>, <<"events", "+">>} : ws_frame("w2", Frame("subscribe", p))
  \/ ws_queue_get("w2")
  \/ \E first \in {"receive", "send"} : ws_wake("w2", first)
  \/ \E send_ok \in BOOLEAN : ws_send_return("w2", send_ok)
  \/ \E payload \in Payloads : deliver_mqtt(<<"events", "x">>, payload)

SpecFan == Init /\ [][NextFan]_vars

\* the one-shot waiter GET /api/mqtt/reply/#, while the bus carries reply/42
\* and (for a /api/mqtt/cmd/# session) cmd/go, and while POST
\* /api/listen-for-wake requests publish on the bus
NextGet ==
  \/ api_mqtt_get("g1", <<"reply", "#">>)
  \/ \E toggle_off \in BOOLEAN : api_listen_for_wake(toggle_off)
  \/ get_receive("g1")
  \/ get_cancel("g1")
  \/ ws_connect_topic("w1", <<"cmd", "#">>)
  \/ ws_topic_receive("w1")
  \/ \E send_ok \in BOOLEAN : ws_topic_send_return("w1", send_ok)
  \/ \E t \in {<<"reply", "42">>, <<"cmd", "go">>}, payload \in Payloads :
        deliver_mqtt(t, payload)

SpecGet == Init /\ [][NextGet]_vars

\* control frames: a /api/mqtt session whose client sends frames of every
\* kind, beside one whose client subscribes to y/#, and a POST to
\* /api/mqtt/x/1
NextFrames ==
  \/ \E w \in WsSessions : ws_connect_mqtt(w)
  \/ \E f \in {Frame("subscribe", <<"x", "#">>), Frame("publish", <<"x", "1">>)}
              \cup {Frame(k, <<"x", "#">>) : k \in BadKinds} : ws_frame("w1", f)
  \/ ws_frame("w2", Frame("subscribe", <<"y", "#">>))
  \/ \E w \in WsSessions : ws_queue_get(w)
  \/ \E w \in WsSessions, first \in {"receive", "send"} : ws_wake(w, first)
  \/ \E w \in WsSessions, send_ok \in BOOLEAN : ws_send_return(w, send_ok)
  \/ ws_close("w1")
  \/ deliver_mqtt(<<"x", "1">>, "\"ok\"")
  \/ api_mqtt_post(<<"x", "1">>, "\"ok\"")

SpecFrames == Init /\ [][NextFrames]_vars

\* the matcher, asked once with a pattern and a topic
NextMatch ==
  /\ ~match.called
  /\ \E pattern \in MatchPatterns, topic \in MatchTopics : iter_match(pattern, topic)

SpecMatch == Init /\ [][NextMatch]_vars

\* the broadcasts: /api/events/log connections and /api/mqtt connections
\* that come, read and go, while log messages and MQTT pairs are broadcast
NextBcast ==
  \/ \E l \in LogSessions : log_connect(l)
  \/ \E l \in LogSessions : log_receive(l)
  \/ \E l \in LogSessions, send_ok \in BOOLEAN : log_send_return(l, send_ok)
  \/ \E l \in LogSessions : log_close(l)
  \/ \E w \in WsSessions : ws_connect_mqtt(w)
  \/ \E w \in WsSessions : ws_queue_get(w)
  \/ \E w \in WsSessions : ws_wake(w, "send")
  \/ \E w \in WsSessions : ws_close(w)
  \/ broadcast("logging", <<>>, "")
  \/ broadcast("mqtt", <<"x", "1">>, "\"ok\"")

SpecBcast == Init /\ [][NextBcast]_vars

\* the waiters under fair scheduling: a handler whose queue holds an item
\* runs, and the deadline of a publish_wait passes; the bus and the clients
\* owe nothing
NextWaiters ==
  \/ api_mqtt_get("g1", <<"x", "#">>)
  \/ get_receive("g1")
  \/ \E t \in {<<"x", "1">>} , payload \in Payloads : deliver_mqtt(t, payload)
  \/ api_listen_for_command(1, FALSE)
  \/ listen_receive_text(1)
  \/ listen_receive_intent(1)
  \/ listen_timeout(1)
  \/ \E name \in Names : api_start_recording(name)
  \/ \E name \in Names : api_stop_recording(1, name, FALSE)
  \/ stop_receive(1)
  \/ stop_timeout(1)
  \/ \E ok \in BOOLEAN : stop_intent(1, ok)
  \/ \E type \in ReplyTypes, sessionId \in Ids : deliver_reply(type, sessionId)

FairWaiters ==
  /\ Init /\ [][NextWaiters]_vars
  /\ WF_vars(get_receive("g1"))
  /\ WF_vars(listen_receive_text(1))
  /\ WF_vars(listen_receive_intent(1))
  /\ WF_vars(listen_timeout(1))
  /\ WF_vars(stop_receive(1))
  /\ WF_vars(stop_timeout(1))
  /\ WF_vars(\E ok \in BOOLEAN : stop_intent(1, ok))

\* the requests made so far among those that take the nohass argument
Made ==
  {c \in {"stop"} \X StopCalls : stop[c[2]].pc # "idle"}
  \cup {c \in {"listen"} \X ListenCalls : listen[c[2]].pc # "idle"}
  \cup {c \in Pipelines : pipeline[c].pc # "idle"}

\* the requests that toggle intent handling, on every way out: a run makes
\* two requests, to any two of the four endpoints that take the nohass
\* argument, and the second may be made while the first is in progress; the
\* bus replies for the sessions these requests wait on
NextToggle ==
  \/ api_start_recording("cmd1")
  \/ /\ Cardinality(Made) <= 1
     /\ \/ \E no_hass \in BOOLEAN : api_stop_recording(1, "cmd1", no_hass)
        \/ \E no_hass \in BOOLEAN : api_listen_for_command(1, no_hass)
        \/ \E no_hass \in BOOLEAN : api_text_to_intent(1, no_hass)
        \/ \E no_hass \in BOOLEAN : api_speech_to_intent(1, no_hass)
  \/ stop_receive(1)
  \/ stop_timeout(1)
  \/ \E ok \in BOOLEAN : stop_intent(1, ok)
  \/ listen_receive_text(1)
  \/ listen_receive_intent(1)
  \/ listen_timeout(1)
  \/ \E ok \in BOOLEAN : text_to_intent_return(1, ok)
  \/ \E ok \in BOOLEAN : speech_transcribed(1, ok)
  \/ \E ok \in BOOLEAN : speech_to_intent_return(1, ok)
  \/ \E type \in ReplyTypes, sessionId \in {stop[1].sessionId, listen[1].sessionId} \ {NoId} :
        deliver_reply(type, sessionId)

SpecToggle == Init /\ [][NextToggle]_vars

\* one /api/mqtt session under fair scheduling: a queue-get task whose queue
\* holds an item completes, and the handler runs once asyncio.wait has a task
\* that is done. The client and the bus owe nothing: no frame need come, and
\* a websocket.send need not return
NextLoop ==
  \/ ws_connect_mqtt("w1")
  \/ \E f \in {Frame("subscribe", <<"x", "#">>), Frame("not_json", <<"x", "#">>)} :
        ws_frame("w1", f)
  \/ ws_queue_get("w1")
  \/ \E first \in {"receive", "send"} : ws_wake("w1", first)
  \/ \E send_ok \in BOOLEAN : ws_send_return("w1", send_ok)
  \/ ws_close("w1")
  \/ deliver_mqtt(<<"x", "1">>, "\"ok\"")

FairLoop ==
  /\ Init /\ [][NextLoop]_vars
  /\ WF_vars(ws_queue_get("w1"))
  /\ WF_vars(\E first \in {"receive", "send"} : ws_wake("w1", first))

\* every operation of the model
Next ==
  \/ NextRec
  \/ NextWait
  \/ \E toggle_off \in BOOLEAN : api_listen_for_wake(toggle_off)
  \/ \E t \in TextCalls, no_hass \in BOOLEAN : api_text_to_intent(t, no_hass)
  \/ \E t \in TextCalls, ok \in BOOLEAN : text_to_intent_return(t, ok)
  \/ \E s \in SpeechCalls, no_hass \in BOOLEAN : api_speech_to_intent(s, no_hass)
  \/ \E s \in SpeechCalls, ok \in BOOLEAN : speech_transcribed(s, ok)
  \/ \E s \in SpeechCalls, ok \in BOOLEAN : speech_to_intent_return(s, ok)
  \/ \E w \in WsSessions : ws_connect_mqtt(w)
  \/ \E w \in WsSessions, p \in Patterns : ws_connect_topic(w, p)
  \/ \E w \in WsSessions, kind \in EventKinds : ws_connect_event(w, kind)
  \/ \E w \in WsSessions, f \in FramesIn : ws_frame(w, f)
  \/ \E w \in WsSessions : ws_transport_error(w)
  \/ \E w \in WsSessions : ws_queue_get(w)
  \/ \E w \in WsSessions, first \in {"receive", "send"} : ws_wake(w, first)
  \/ \E w \in WsSessions, send_ok \in BOOLEAN : ws_send_return(w, send_ok)
  \/ \E w \in WsSessions : ws_topic_receive(w)
  \/ \E w \in WsSessions, send_ok \in BOOLEAN : ws_topic_send_return(w, send_ok)
  \/ \E w \in WsSessions : ws_event_receive(w)
  \/ \E w \in WsSessions, send_ok \in BOOLEAN : ws_event_send_return(w, send_ok)
  \/ \E w \in WsSessions : ws_close(w)
  \/ \E g \in GetCalls, p \in Patterns : api_mqtt_get(g, p)
  \/ \E g \in GetCalls : get_receive(g)
  \/ \E g \in GetCalls : get_cancel(g)
  \/ \E t \in Topics, payload \in Payloads : api_mqtt_post(t, payload)
  \/ \E t \in Topics, payload \in Payloads : deliver_mqtt(t, payload)
  \/ \E kind \in EventKinds : deliver_event(kind)
  \/ restart_shutdown
  \/ restart_start
  \/ restart_started
  \/ NextBcast
  \/ NextMatch

Spec == Init /\ [][Next]_vars

\* ----------------------------------------------------------------- claims

\* the indices of the log at which a message of `type` was published
Published(type) == {i \in 1 .. Len(published) : published[i].type = type}

\* name was started and the id that start returned has not been used by an
\* api_stop_recording since: read off the outbound log, not off session_names
Live(name) ==
  /\ start_returned[name] # NoId
  /\ \A i \in Published("AsrStopListening") :
        published[i].by[1] = "stop" => published[i].sessionId # start_returned[name]

\* an api_stop_recording request s for `name` runs in this step
StopStep(s, name) ==
  stop[s].pc = "idle" /\ stop'[s].pc # "idle" /\ stop'[s].name = name

\* C1: after start(name) returned id A and no later start(name) or
\* finish(name) ran, finish(name) goes on with exactly A as its correlation
\* id (and asks the bus to stop listening for A), whatever happened to the
\* other names in between.
C1_RoundTrip ==
  [][\A s \in StopCalls, name \in Names :
       (StopStep(s, name) /\ Live(name)) =>
          /\ stop'[s].pc = "wait"
          /\ stop'[s].sessionId = start_returned[name]
          /\ published'[Len(published')] =
               Msg("AsrStopListening", start_returned[name], <<"stop", s>>)]_vars

\* a finish("cmd1") is waiting with the id of start("cmd1") after the other
\* name was started and finished in between
C1_Witness ==
  \E s, t \in StopCalls :
    /\ stop[s].pc = "wait" /\ stop[s].name = "cmd1"
    /\ stop[s].sessionId = start_returned["cmd1"]
    /\ stop[t].name = "cmd2" /\ stop[t].sessionId = start_returned["cmd2"]
    /\ start_returned["cmd1"] < start_returned["cmd2"]

\* C2: finish(name) for a name with no entry (never started, or already
\* finished with no start since) fails: it ends with the failed assertion,
\* holds no correlation id and publishes no AsrStopListening, so no id used
\* before comes back.
C2_NoSuchSession ==
  [][\A s \in StopCalls, name \in Names :
       (StopStep(s, name) /\ ~Live(name)) =>
          /\ stop'[s].pc = "done"
          /\ stop'[s].result = "AssertionError"
          /\ stop'[s].sessionId = NoId
          /\ Published("AsrStopListening")' = Published("AsrStopListening")
          /\ session_names' = session_names]_vars

\* the second finish of a name, with no start in between, has failed
C2_Witness ==
  \E s, t \in StopCalls :
    /\ s # t /\ stop[s].name = stop[t].name
    /\ stop[s].sessionId # NoId
    /\ stop[t].pc = "done" /\ stop[t].result = "AssertionError"
    /\ Len(published) >= 2
    /\ Cardinality(Published("AsrStartListening")) = 1

\* C3: the registry holds one id per name, the one the latest start(name)
\* returned: a start for a name that has an entry overwrites it, and the
\* older id is no longer in the table.
C3_LastWriterWins ==
  /\ DOMAIN session_names \subseteq Names
  /\ \A name \in DOMAIN session_names : session_names[name] = start_returned[name]

\* a name was started twice and is in the registry with the second id
C3_Witness ==
  /\ DOMAIN session_names = {"cmd1"}
  /\ session_names["cmd1"] = 2
  /\ start_returned["cmd2"] = NoId
  /\ Cardinality(Published("AsrStartListening")) = 2

\* the results of the publish_wait calls a request has got so far
Results(c) ==
  IF c[1] = "stop" THEN {stop[c[2]].text_captured} \ {NoMsg}
  ELSE {listen[c[2]].text_captured, listen[c[2]].nlu_intent} \ {NoMsg}

SessionIdOf(c) == IF c[1] = "stop" THEN stop[c[2]].sessionId ELSE listen[c[2]].sessionId

\* C6: a publish-and-wait call completes only on a reply that carries its
\* own correlation id: every result a request holds has the sessionId of
\* that request, also while another request waits on the same topic.
C6_Correlation ==
  \A c \in Callers : \A r \in Results(c) : r.sessionId = SessionIdOf(c)

\* the stop request saw the reply that carries the listen request's id,
\* went on waiting, and completed on the reply with its own id
C6_Witness ==
  /\ stop[1].text_captured # NoMsg
  /\ listen[1].sessionId # NoId
  /\ \E i \in 1 .. Len(consumed[<<"stop", 1>>]) :
        consumed[<<"stop", 1>>][i].sessionId = listen[1].sessionId

\* the predicate of the first wait of api_listen_for_command, spelled out
AcceptsText(message, sessionId) ==
  message.type \in {"AsrTextCaptured", "AsrError"} /\ message.sessionId = sessionId

\* C7: a waiter discards the messages its predicate rejects and keeps
\* waiting: the transcription result of api_listen_for_command is the first
\* message of its queue the predicate accepts, every message before it was
\* rejected, and no message reaches the predicate twice.
C7_DiscardAndWait ==
  \A l \in ListenCalls :
    LET seen == consumed[<<"listen", l>>] IN
    /\ \A i, j \in 1 .. Len(seen) : i < j => seen[i].n < seen[j].n
    /\ listen[l].text_captured # NoMsg =>
         \E k \in 1 .. Len(seen) :
            /\ seen[k] = listen[l].text_captured
            /\ AcceptsText(seen[k], listen[l].sessionId)
            /\ \A j \in 1 .. (k - 1) : ~AcceptsText(seen[j], listen[l].sessionId)

\* the predicate rejected the first message and accepted the second
C7_Witness ==
  \E l \in ListenCalls :
    LET seen == consumed[<<"listen", l>>] IN
    /\ Len(seen) >= 2
    /\ listen[l].text_captured = seen[2]
    /\ ~AcceptsText(seen[1], listen[l].sessionId)

\* C8: the outbound messages of one publish-and-wait call reach the bus in
\* the order given: in api_listen_for_command the AsrStopListening of a
\* session is published right before the NluQuery of that session.
C8_PublishOrder ==
  /\ \A j \in Published("NluQuery") :
        /\ j > 1
        /\ published[j - 1] =
             Msg("AsrStopListening", published[j].sessionId, published[j].by)
  /\ \A i \in Published("AsrStopListening") :
        published[i].by[1] = "listen" =>
           /\ i < Len(published)
           /\ published[i + 1] = Msg("NluQuery", published[i].sessionId, published[i].by)

\* both requests have published their AsrStopListening and NluQuery
C8_Witness ==
  /\ Cardinality(Published("NluQuery")) = 2
  /\ \A l \in ListenCalls : listen[l].pc = "wait_intent"

\* the copies of the bus message with arrival index n among the frames
\* sent to WebSocket session w
Copies(w, n) == {i \in DOMAIN sent[w] : sent[w][i].n = n}

\* C4: once the owner of a consumer queue has exited (a WebSocket session
\* wrapped by mqtt_websocket, or the GET waiter of api_mqtt), by a normal
\* return, an exception or a cancellation, its queue is in no registered set
C4_QueueDeregistered ==
  /\ \A w \in WsSessions :
       ws[w].pc = "closed" => w \notin message_queues /\ w \notin mqtt_websockets
  /\ \A g \in GetCalls : get[g].pc = "done" => g \notin message_queues

\* a session left by the exception of its loop and a GET waiter left by the
\* exception of json.loads, both after having been registered
C4_Witness ==
  /\ ws["w1"].pc = "closed" /\ ws["w1"].exit = "UnboundLocalError"
  /\ get["g1"].pc = "done" /\ get["g1"].result = "JSONDecodeError"

\* C5: every waiting operation terminates: the GET waiter of api_mqtt leaves
\* its loop, and the publish_wait calls of api_listen_for_command and of
\* api_stop_recording return (with a result, an error or TimedOut)
C5_Terminates ==
  /\ \A g \in GetCalls : (get[g].pc = "wait") ~> (get[g].pc = "done")
  /\ (listen[1].pc \in {"wait_text", "wait_intent"}) ~> (listen[1].pc = "done")
  /\ (stop[1].pc \in {"wait", "intent"}) ~> (stop[1].pc = "done")

SendRaised(w, n) == n \in ws[w].failed /\ JsonLoads(delivered[n].payload).ok

\* C10: a bus message is sent at most once to a session, whatever the
\* number of its patterns that match, and never zero times: a session that
\* has taken the message through its send code and had a matching pattern
\* before the message arrived has sent exactly one copy of it to its client,
\* unless websocket.send itself raised
C10_ExactlyOnce ==
  \A w \in WsSessions : \A n \in 1 .. Len(delivered) :
    /\ Cardinality(Copies(w, n)) <= 1
    /\ ( /\ n \in ws[w].handled /\ ~SendRaised(w, n)
         /\ \E p \in ws[w].topic_matcher :
              Matches(p, delivered[n].topic) /\ ws[w].sub_at[p] < n )
       => Cardinality(Copies(w, n)) = 1

\* C11: the frames a WebSocket session has sent to its client are in the
\* order in which the bus delivered their messages to the session's queue,
\* whatever transport frames the session handled in between
C11_Fifo ==
  \A w \in WsSessions : \A i, j \in DOMAIN sent[w] :
    i < j => sent[w][i].n < sent[w][j].n

\* a /api/mqtt session that sent two messages and handled a subscribe frame
\* after the first of them had arrived
C11_Witness ==
  /\ ws["w2"].route = "mqtt"
  /\ Len(sent["w2"]) = 2
  /\ \E p \in ws["w2"].topic_matcher : ws["w2"].sub_at[p] >= 1

\* C12: a bus message that arrived before the session added a subscription
\* matching its topic is never sent to the session's client: every frame
\* sent stems from a message that arrived after some matching pattern was
\* added
C12_NoRetroactive ==
  \A w \in WsSessions : \A i \in DOMAIN sent[w] :
    \E p \in ws[w].topic_matcher :
      Matches(p, sent[w][i].topic) /\ ws[w].sub_at[p] < sent[w][i].n

\* the log messages broadcast while connection l was registered, in order
Expected(l) ==
  LET sel == SelectSeq(bcasts, LAMBDA b : b.kind = "logging" /\ l \in b.at_start)
  IN [i \in 1 .. Len(sel) |-> sel[i].n]

\* the log messages connection l has sent to its client, then the one it is
\* sending, then those its queue still holds
Got(l) ==
  log_ws[l].sent
  \o (IF log_ws[l].pc = "send" THEN <<log_ws[l].message>> ELSE <<>>)
  \o [i \in 1 .. Len(queue[l]) |-> queue[l][i].n]

\* the MQTT pairs WebSocket session w holds or has handled
GotPairs(w) ==
  {queue[w][i].n : i \in 1 .. Len(queue[w])}
  \cup (IF ws[w].send_task.state = "done" THEN {ws[w].send_task.result.n} ELSE {})
  \cup {ws[w].out[i].n : i \in DOMAIN ws[w].out}
  \cup ws[w].handled

\* C13: a consumer that does not read its queue stalls nobody: no broadcast
\* is ever suspended in a put, and every running consumer holds or has
\* handled every message broadcast while it was registered, whatever the
\* other queues hold
C13_NoStall ==
  /\ bcast.pc # "suspended"
  /\ \A l \in LogSessions : log_ws[l].pc \in {"wait", "send"} => Got(l) = Expected(l)
  /\ \A w \in WsSessions : Running(w) =>
       GotPairs(w) = {bcasts[i].n : i \in {j \in DOMAIN bcasts :
                         bcasts[j].kind = "mqtt" /\ w \in bcasts[j].at_start}}

\* l1 has read nothing and holds two messages; l2 has sent both to its client
C13_Witness ==
  /\ log_ws["l1"].pc = "wait" /\ log_ws["l1"].sent = <<>> /\ Len(queue["l1"]) = 2
  /\ log_ws["l2"].pc = "wait" /\ Len(log_ws["l2"].sent) = 2

\* C14: no broadcast fails, and every queue registered both when the
\* broadcast began and when it ended was given the message, whatever
\* registrations and deregistrations the other handlers make
C14_BroadcastSafe ==
  \A i \in DOMAIN bcasts :
    /\ bcasts[i].result = "ok"
    /\ (bcasts[i].at_start \cap bcasts[i].at_end) \subseteq bcasts[i].put

\* two broadcasts over the same set, one queue having left and another
\* joined between them, and a queue that stayed
C14_Witness ==
  \E i, j \in DOMAIN bcasts :
    /\ i < j /\ bcasts[i].kind = bcasts[j].kind
    /\ bcasts[i].at_start \ bcasts[j].at_start # {}
    /\ bcasts[j].at_start \ bcasts[i].at_start # {}

\* the step in which session w handles the frame its receive task holds
HandlesFrame(w) ==
  /\ Running(w) /\ ws[w].receive_task.state = "done"
  /\ ws'[w].receive_task # ws[w].receive_task

\* C15: a control frame that is not JSON, lacks "type" or "topic", has a
\* type other than subscribe or publish, or is a publish without "payload"
\* is dropped: the step that handles it changes no subscription set, gives
\* nothing to the bus client, and leaves the session running with a new
\* receive armed
C15_MalformedDropped ==
  [][\A w \in WsSessions :
       (HandlesFrame(w) /\ ws[w].receive_task.result.kind \in BadKinds)
       => /\ \A v \in WsSessions : ws'[v].topic_matcher = ws[v].topic_matcher
          /\ subscribed' = subscribed
          /\ client_published' = client_published
          /\ ws'[w].pc \in {"wait", "send"}
          /\ ws'[w].receive_task.state = "pending"
          /\ ws'[w].dropped = ws[w].dropped + 1]_vars

\* a running session that dropped a frame, holds a subscription and has
\* sent a queue message to its client
C15_Witness ==
  /\ ws["w1"].pc = "wait" /\ ws["w1"].dropped >= 1
  /\ ws["w1"].topic_matcher = {<<"x", "#">>}
  /\ sent["w1"] # <<>>

\* C16: the step that handles a subscribe frame adds the frame's pattern to
\* the matcher of that session and to the bus subscriptions, publishes
\* nothing and leaves the matcher of every other session as it was; the step
\* that handles a publish frame publishes on the frame's topic and changes
\* no matcher and no bus subscription
C16_FrameEffect ==
  [][\A w \in WsSessions :
       LET f == ws[w].receive_task.result
       IN /\ (HandlesFrame(w) /\ f.kind = "subscribe")
             => /\ ws'[w].topic_matcher = ws[w].topic_matcher \cup {f.topic}
                /\ subscribed' = subscribed \cup {f.topic}
                /\ client_published' = client_published
                /\ \A v \in WsSessions \ {w} :
                     ws'[v].topic_matcher = ws[v].topic_matcher
          /\ (HandlesFrame(w) /\ f.kind = "publish")
             => /\ client_published' =
                     Append(client_published,
                            [topic |-> f.topic, payload |-> JsonDumps(FramePayload),
                             by |-> w])
                /\ subscribed' = subscribed
                /\ \A v \in WsSessions :
                     ws'[v].topic_matcher = ws[v].topic_matcher]_vars

\* w1 has subscribed to x/# and published, beside a running w2 that holds
\* no subscription
C16_Witness ==
  /\ ws["w1"].topic_matcher = {<<"x", "#">>}
  /\ ws["w2"].pc = "wait" /\ ws["w2"].topic_matcher = {}
  /\ \E i \in DOMAIN client_published : client_published[i].by = "w1"

\* C17: a consumer that is still running is still registered with the hub
\* of the core that is up, also after api_restart has replaced the core
C17_SurvivesRestart ==
  core_up =>
    /\ \A w \in WsSessions : Running(w) => w \in message_queues
    /\ \A g \in GetCalls : get[g].pc = "wait" => g \in message_queues

\* C18 as stated: neither start(name) nor a finish(name) whose lookup fails
\* publishes a message or registers a queue
C18_NoBusInteraction ==
  /\ \A i \in DOMAIN published : published[i].by # <<"start", 0>>
  /\ \A s \in StopCalls : stop[s].result = "AssertionError" =>
       /\ handler_topics[<<"stop", s>>] = {}
       /\ \A i \in DOMAIN published :
            published[i].by = <<"stop", s>> => published[i].type # "AsrStopListening"

\* the types of the messages a step has appended to `published`
NewlyPublished ==
  {published'[i].type : i \in (Len(published) + 1) .. Len(published')}

\* C18 as amended: start(name) publishes exactly one message,
\* AsrStartListening with the id it stores under the name, and registers no
\* queue; a finish(name) whose lookup fails leaves the table as it was,
\* registers no queue and publishes nothing but the HandleToggleOff and
\* HandleToggleOn of a nohass request
C18_RegistryEffects ==
  [][/\ (uuid_next' # uuid_next /\ listen' = listen)
        => /\ published' = Append(published,
                             Msg("AsrStartListening", uuid_next, <<"start", 0>>))
           /\ \E name \in Names :
                /\ name \in DOMAIN session_names'
                /\ session_names'[name] = uuid_next
                /\ \A other \in DOMAIN session_names' \ {name} :
                     other \in DOMAIN session_names
                     /\ session_names'[other] = session_names[other]
           /\ handler_topics' = handler_topics
           /\ handler_queue' = handler_queue
           /\ message_queues' = message_queues
     /\ \A s \in StopCalls, name \in Names :
          (StopStep(s, name) /\ name \notin DOMAIN session_names)
          => /\ session_names' = session_names
             /\ handler_topics' = handler_topics
             /\ handler_queue' = handler_queue
             /\ message_queues' = message_queues
             /\ NewlyPublished =
                  (IF stop'[s].no_hass THEN {"HandleToggleOff", "HandleToggleOn"}
                   ELSE {})]_vars

\* a start has published its AsrStartListening, and a nohass finish for a
\* name without entry has failed
C18_Witness ==
  /\ \E i \in DOMAIN published : published[i].type = "AsrStartListening"
  /\ \E s \in StopCalls :
       /\ stop[s].result = "AssertionError" /\ stop[s].no_hass
       /\ \E i \in DOMAIN published : published[i].by = <<"stop", s>>

\* the bus messages put into the queue of GET request g whose topic matches
\* its pattern
MatchingFor(g) ==
  {n \in (get[g].since + 1) .. Len(delivered) :
     /\ delivered[n].kind = "mqtt"
     /\ IterMatch(get[g].topic_matcher, delivered[n].topic) # {}}

\* C19: a GET /api/mqtt/reply/# request that has ended, other than by its
\* client going away, has returned the first message delivered to its queue
\* whose topic matches, with that message's topic and payload
C19_FirstMatchReturned ==
  \A g \in GetCalls :
    (get[g].pc = "done" /\ get[g].result # "CancelledError")
    => /\ get[g].result = "response"
       /\ MatchingFor(g) # {}
       /\ \A n \in MatchingFor(g) : get[g].response.n <= n
       /\ get[g].response.n \in MatchingFor(g)
       /\ get[g].response.topic = delivered[get[g].response.n].topic
       /\ JsonDumps(get[g].response.payload) = delivered[get[g].response.n].payload

\* the wildcard rules, level by level: a pattern with a last "#" matches
\* the topics that have at least its other levels and agree with them; a
\* pattern without it matches the topics of its own length that agree with
\* it; a level agrees with "+" or with itself
RuleMatches(pattern, topic) ==
  LET Agree(k) == \A i \in 1 .. k : pattern[i] = "+" \/ pattern[i] = topic[i]
  IN IF pattern[Len(pattern)] = "#"
     THEN Len(topic) >= Len(pattern) - 1 /\ Agree(Len(pattern) - 1)
     ELSE Len(topic) = Len(pattern) /\ Agree(Len(pattern))

\* the five cases the specification lists
Listed(pattern, topic) ==
  CASE pattern = <<"a", "+", "c">> /\ topic = <<"a", "b", "c">> -> "yes"
    [] pattern = <<"a", "+", "c">> /\ topic = <<"a", "b", "b", "c">> -> "no"
    [] pattern = <<"a", "#">> /\ topic = <<"a">> -> "yes"
    [] pattern = <<"a", "#">> /\ topic = <<"a", "b", "c">> -> "yes"
    [] pattern = <<"a", "+">> /\ topic = <<"a">> -> "no"
    [] OTHER -> "any"

\* C20: for every pattern and topic of the bounded sets, iter_match yields
\* the stored pattern exactly when the wildcard rules say the pattern matches
\* the topic, and it answers the five listed cases as listed
C20_WildcardRules ==
  match.called =>
    /\ match.result = RuleMatches(match.pattern, match.topic)
    /\ Listed(match.pattern, match.topic) = "yes" => match.result
    /\ Listed(match.pattern, match.topic) = "no" => ~match.result

\* the pattern a/# asked with the topic a, its "#" standing for no level:
\* a match
C20_Witness ==
  /\ match.called /\ match.result
  /\ match.pattern = <<"a", "#">> /\ match.topic = <<"a">>

\* task record `new` is the one created to replace `old`
Replaced(old, new, none) == new = Task(old.id + 1, "pending", none)

\* C21: whenever a /api/mqtt session is at the wait of its loop, the set
\* `pending` holds exactly its current receive task and its current
\* queue-get task, one of each; and a round of the loop replaces each of the
\* two that had completed by a task newly created (the queue-get task once
\* its frame has left), and leaves one that had not completed as it was,
\* the same pending task
C21_TwoTasksArmed ==
  /\ [](\A w \in WsSessions :
          (ws[w].pc = "wait" /\ ws[w].route = "mqtt") =>
             /\ ws[w].pending = {<<"receive", ws[w].receive_task.id>>,
                                 <<"send", ws[w].send_task.id>>}
             /\ ws[w].receive_task.state # "none"
             /\ ws[w].send_task.state # "none")
  /\ [][\A w \in WsSessions :
          LET a == ws[w]
              b == ws'[w]
          IN (/\ a.route = "mqtt" /\ a.pc \in {"wait", "send"}
              /\ b.pc \in {"wait", "send"}
              /\ b.pending # a.pending \/ b.pc # a.pc) =>
             /\ a.receive_task.state = "pending" => b.receive_task = a.receive_task
             /\ a.send_task.state = "pending" => b.send_task = a.send_task
             /\ b.receive_task # a.receive_task
                  => Replaced(a.receive_task, b.receive_task, NoFrame)
             /\ b.send_task # a.send_task
                  => Replaced(a.send_task, b.send_task, NoItem)
             /\ (a.pc = "wait" /\ b.pc = "wait") =>
                  /\ a.receive_task.state # "pending"
                       => b.receive_task # a.receive_task
                  /\ a.send_task.state # "pending" => b.send_task # a.send_task
             /\ (a.pc = "send" /\ b.pc = "wait") =>
                  /\ b.send_task # a.send_task
                  /\ a.done # <<>> => b.receive_task # a.receive_task]_vars

\* a session at its wait whose receive task was replaced twice while its
\* first queue-get task is still the pending one
C21_Witness ==
  /\ ws["w1"].pc = "wait" /\ ws["w1"].route = "mqtt"
  /\ ws["w1"].send_task = Task(1, "pending", NoItem)
  /\ ws["w1"].receive_task.id = 3

\* C22: under fair scheduling neither side of a /api/mqtt session starves:
\* a message in the session's queue is handled by the send code, and a frame
\* the receive task has obtained is handled and a new receive armed, unless
\* the session ends first or stays suspended for ever in one websocket.send
\* (its client takes no frame); and frames are handled one after another: a
\* receive task obtains a frame only while it is the pending one, and the
\* next receive task is created only by the step that handles that frame
C22_NoStarvation ==
  /\ \/ <>[](ws["w1"].pc = "send")
     \/ /\ \A n \in 1 .. MaxDeliver :
             (Running("w1") /\ \E i \in DOMAIN queue["w1"] : queue["w1"][i].n = n)
             ~> (n \in ws["w1"].handled \/ ws["w1"].pc = "closed")
        /\ (Running("w1") /\ ws["w1"].receive_task.state = "done")
           ~> (ws["w1"].receive_task.state = "pending" \/ ws["w1"].pc = "closed")
  /\ [][/\ (ws'["w1"].receive_task.state = "done"
            /\ ws["w1"].receive_task.state # "done")
           => /\ ws["w1"].receive_task.state = "pending"
              /\ ws'["w1"].receive_task.id = ws["w1"].receive_task.id
        /\ (ws'["w1"].receive_task.id # ws["w1"].receive_task.id
            /\ Running("w1"))
           => /\ ws["w1"].receive_task.state = "done"
              /\ ws'["w1"].receive_task.state = "pending"
              /\ ws'["w1"].message_bound]_vars

\* the session has handled two frames and two queue messages, the second
\* frame having come while the first message was being sent
C22_Witness ==
  /\ ws["w1"].pc = "wait"
  /\ ws["w1"].handled = {1, 2}
  /\ Len(sent["w1"]) >= 1
  /\ ws["w1"].receive_task.id = 3
  /\ ws["w1"].send_task.id = 3
  /\ ws["w1"].dropped >= 1

\* the step in which the loop of session w meets the outcome of its receive
\* task: it re-arms the task, or an exception leaves the loop
MeetsReceive(w) ==
  /\ Running(w) /\ ws[w].route = "mqtt"
  /\ \/ ws'[w].receive_task # ws[w].receive_task
     \/ ws'[w].exit \notin {None, "CancelledError"}

\* C23: an error of the receive task or of the send code is isolated: the
\* round that meets it re-arms the task and the session stays in its loop,
\* also when the error is that of the first receive; no session ends other
\* than by its client closing the transport
C23_ErrorsIsolated ==
  [][\A w \in WsSessions :
       /\ (MeetsReceive(w) /\ ws[w].receive_task.state = "error")
          => /\ ws'[w].pc \in {"wait", "send"}
             /\ Replaced(ws[w].receive_task, ws'[w].receive_task, NoFrame)
       /\ (Running(w) /\ ws[w].send_task.state = "done"
           /\ ws'[w].send_task # ws[w].send_task)
          => /\ ws'[w].pc \in {"wait", "send"}
             /\ ws'[w].send_task.state = "pending"
       /\ ws'[w].exit \in {None, "CancelledError"}]_vars

\* the owners that have registered their queue and have not exited
LiveOwners ==
  {w \in WsSessions : Running(w)} \cup {g \in GetCalls : get[g].pc = "wait"}

\* C24: in every reachable state the queues registered with the hub are
\* exactly the queues of the owners that have registered and not yet
\* exited, and the module's set of WebSocket queues holds exactly those of
\* the running WebSocket sessions
C24_RegisteredAreLive ==
  /\ message_queues = LiveOwners
  /\ mqtt_websockets = {w \in WsSessions : Running(w)}

\* C25: the teardown of a consumer never fails: no finally block of a
\* WebSocket session or of a GET waiter has raised, whether or not
\* api_restart ran between the registration and the teardown
C25_TeardownNeverFails ==
  /\ \A w \in WsSessions : ws[w].teardown \in {None, "ok"}
  /\ \A g \in GetCalls : get[g].teardown \in {None, "ok"}

\* the requests that take the nohass argument
Requests == Callers \cup Pipelines

\* the position and the locals of request c
Request(c) ==
  CASE c[1] = "stop" -> stop[c[2]]
    [] c[1] = "listen" -> listen[c[2]]
    [] OTHER -> pipeline[c]

\* request c was made with nohass=true and has not completed
NoHassInProgress(c) == Request(c).no_hass /\ Request(c).pc \notin {"idle", "done"}

\* C26: while a nohass request is in progress no HandleToggleOn is
\* published: none follows the HandleToggleOff of a request that has not
\* completed, also when several nohass requests overlap
C26_StaysDisabled ==
  \A c \in Requests :
    NoHassInProgress(c) =>
      \A i, j \in DOMAIN published :
        (published[i] = Msg("HandleToggleOff", NoId, c) /\ i < j)
        => published[j].type # "HandleToggleOn"

\* the indices at which request c published a message of `type`
PublishedBy(c, type) ==
  {i \in DOMAIN published : published[i].type = type /\ published[i].by = c}

\* request c has completed, whatever its way out
Completed(c) == Request(c).pc = "done"

NoHass(c) == Request(c).no_hass

\* C27: a request made with nohass publishes HandleToggleOff once, and by
\* the time it has completed (with a result, an error reply, a failed
\* assertion, a missing session name or a timeout) it has published
\* HandleToggleOn exactly once, after the HandleToggleOff and as its last
\* message; before that it has published none. A request made without
\* nohass publishes neither
C27_ToggleRestored ==
  \A c \in Requests :
    LET off == PublishedBy(c, "HandleToggleOff")
        on == PublishedBy(c, "HandleToggleOn")
    IN /\ ~NoHass(c) => off = {} /\ on = {}
       /\ NoHassInProgress(c) => Cardinality(off) = 1 /\ on = {}
       /\ (NoHass(c) /\ Completed(c)) =>
            /\ Cardinality(off) = 1 /\ Cardinality(on) = 1
            /\ \A i \in off, j \in on : i < j
            /\ \A j \in on, k \in DOMAIN published : published[k].by = c => k <= j

\* a nohass stop-recording that failed on a missing name and a nohass
\* speech-to-intent whose transcription failed, both completed
C27_Witness ==
  /\ stop[1].no_hass /\ stop[1].result = "AssertionError"
  /\ pipeline[<<"speech", 1>>].no_hass /\ pipeline[<<"speech", 1>>].result = "Error"
  /\ Cardinality({i \in DOMAIN published : published[i].type = "HandleToggleOn"}) = 2

\* C28: once a /api/mqtt session has ended, by the cancellation at transport
\* close or by an exception leaving its loop, none of the tasks it created
\* is still pending: neither its receive task nor its queue-get task
C28_NoTaskLeft ==
  \A w \in WsSessions :
    ws[w].pc = "closed" =>
      /\ ws[w].receive_task.state # "pending"
      /\ ws[w].send_task.state # "pending"

\* what api_listen_for_command request l has published, the toggles left out
ListenLog(l) ==
  SelectSeq(published,
            LAMBDA msg : /\ msg.by = <<"listen", l>>
                         /\ msg.type \notin {"HandleToggleOff", "HandleToggleOn"})

\* C29: a listen-for-command request publishes AsrStartListening, then
\* AsrStopListening, then NluQuery, each with its own sessionId and none of
\* them twice; the last two are published only once the request has
\* received an AsrTextCaptured with its sessionId, and never when its
\* transcription wait ended with AsrError or without a result
C29_ListenOrder ==
  \A l \in ListenCalls :
    LET c == <<"listen", l>>
        log == ListenLog(l)
        types == [i \in 1 .. Len(log) |-> log[i].type]
    IN /\ \/ Len(log) = 0 /\ listen[l].pc = "idle"
          \/ Len(log) = 1 /\ types[1] = "AsrStartListening"
          \/ /\ Len(log) = 3
             /\ types = <<"AsrStartListening", "AsrStopListening", "NluQuery">>
       /\ \A i \in DOMAIN log : log[i].sessionId = listen[l].sessionId
       /\ Len(log) = 3 =>
            /\ listen[l].text_captured.type = "AsrTextCaptured"
            /\ \E k \in DOMAIN consumed[c] :
                 /\ consumed[c][k].type = "AsrTextCaptured"
                 /\ consumed[c][k].sessionId = listen[l].sessionId
       /\ (listen[l].pc = "done" /\ listen[l].text_captured.type # "AsrTextCaptured")
          => Len(log) = 1

\* the first request has gone on to its NluQuery after its own
\* AsrTextCaptured; the second saw that message, rejected it, and ended on
\* an AsrError with only its AsrStartListening published
C29_Witness ==
  /\ Len(ListenLog(1)) = 3
  /\ listen[2].pc = "done" /\ listen[2].text_captured.type = "AsrError"
  /\ Len(consumed[<<"listen", 2>>]) = 2
  /\ Len(ListenLog(2)) = 1

\* C30: a stop-recording for a name without entry fails, leaves the table
\* as it was and publishes no AsrStopListening; one for a name with an entry
\* takes the entry out in its first step, before it waits, and no later
\* step of the request (result, error or timeout) touches the table: unless
\* the name is started again, it is absent while the request waits and
\* after it has ended
C30_EntryRemovedFirst ==
  /\ [](\A s \in StopCalls :
          (stop[s].sessionId # NoId
           /\ start_returned[stop[s].name] = stop[s].sessionId)
          => stop[s].name \notin DOMAIN session_names)
  /\ [][\A s \in StopCalls :
          /\ \A name \in Names :
               (StopStep(s, name) /\ name \notin DOMAIN session_names)
               => /\ session_names' = session_names
                  /\ stop'[s].pc = "done"
                  /\ "AsrStopListening" \notin NewlyPublished
          /\ \A name \in Names :
               (StopStep(s, name) /\ name \in DOMAIN session_names)
               => /\ stop'[s].pc = "wait"
                  /\ stop'[s].sessionId = session_names[name]
                  /\ DOMAIN session_names' = DOMAIN session_names \ {name}
                  /\ \A other \in DOMAIN session_names' :
                       session_names'[other] = session_names[other]
          /\ (stop[s].pc \in {"wait", "intent"} /\ stop'[s] # stop[s])
             => session_names' = session_names]_vars

\* one stop-recording has timed out and another has returned its intent,
\* each for a name of its own, and the table is empty
C30_Witness ==
  /\ \E s, t \in StopCalls :
       /\ stop[s].result = "TimedOut" /\ stop[t].result = "intent_dict"
       /\ stop[s].name # stop[t].name
  /\ DOMAIN session_names = {}

=============================================================================
